---- MODULE Spec2Model ----
(***************************************************************************)
(* A model of the cldmigrate_analyzer core: the placeholder-variable       *)
(* resolution engine (core/resolution/resolver.py), the database/schema    *)
(* extraction (core/extraction/database_schema_parser.py), the SQL         *)
(* complexity analysis (core/extraction/sql_complexity_analyzer.py) and    *)
(* the dependency graph (core/dependency/graph.py).                        *)
(*                                                                         *)
(* Text is modelled as a sequence of one-character strings, so the regular *)
(* expressions of the source are matched character by character.           *)
(***************************************************************************)
EXTENDS Integers, Sequences, FiniteSets, TLC

VARIABLES rs, mg, repo, db, sq, g, pl, pt, fc, cx

vars == <<rs, mg, repo, db, sq, g, pl, pt, fc, cx>>

\* The value of a component that a specification does not exercise.
Idle == [pc |-> "idle"]

(***************************************************************************)
(* Text helpers                                                            *)
(***************************************************************************)

\* The literal token ${name}.
Tok(name) == <<"$", "{">> \o name \o <<"}">>

\* A list without its repeated elements, first occurrences kept.
RECURSIVE Dedup(_)
Dedup(list) ==
  IF list = <<>> THEN <<>>
  ELSE LET front == Dedup(SubSeq(list, 1, Len(list) - 1))
           last == list[Len(list)] IN
       IF \E i \in 1..Len(front) : front[i] = last THEN front
       ELSE Append(front, last)

\* The elements of a sequence, as a set.
Range(seq) == {seq[i] : i \in 1..Len(seq)}

\* The element of a one-element set.  { F(v) : v \in {e} } binds a local to
\* the value of e, computed once.
Only(S) == CHOOSE x \in S : TRUE

(***************************************************************************)
(* resolver.py: _VAR_RE and resolve_string                                 *)
(***************************************************************************)

\* _VAR_RE = \$\{([^}]+)\} tried at position i of s: the index of the closing
\* brace of the match, or 0 when the pattern does not match at i.
VAR_RE_end(s, i) ==
  IF /\ i + 3 <= Len(s)
     /\ s[i] = "$"
     /\ s[i + 1] = "{"
     /\ s[i + 2] # "}"
     /\ \E j \in (i + 3)..Len(s) : s[j] = "}"
  THEN CHOOSE j \in (i + 3)..Len(s) :
         s[j] = "}" /\ \A k \in (i + 3)..(j - 1) : s[k] # "}"
  ELSE 0

\* _VAR_RE.findall(s) from position i on: the names of the non-overlapping
\* matches, leftmost first.
RECURSIVE VAR_RE_findall(_, _)
VAR_RE_findall(s, i) ==
  IF i > Len(s) THEN <<>>
  ELSE LET j == VAR_RE_end(s, i) IN
       IF j = 0 THEN VAR_RE_findall(s, i + 1)
       ELSE <<SubSeq(s, i + 2, j - 1)>> \o VAR_RE_findall(s, j + 1)

\* "if key not in unresolved: unresolved.append(key)".
append_always(unresolved, key) == Append(unresolved, key)
append_if_absent(unresolved, key) ==
  IF \E i \in 1..Len(unresolved) : unresolved[i] = key THEN unresolved
  ELSE Append(unresolved, key)

\* _VAR_RE.sub(repl, cur) from position i on, with the closure state of repl
\* (unresolved, changed) threaded through acc = [out, unresolved, changed].
RECURSIVE VAR_RE_sub(_, _, _, _)
VAR_RE_sub(s, i, lookup, acc) ==
  IF i > Len(s) THEN acc
  ELSE LET j == VAR_RE_end(s, i) IN
       IF j = 0
       THEN VAR_RE_sub(s, i + 1, lookup, [acc EXCEPT !.out = Append(@, s[i])])
       ELSE LET key == SubSeq(s, i + 2, j - 1) IN
            IF key \in DOMAIN lookup
            THEN VAR_RE_sub(s, j + 1, lookup,
                            [acc EXCEPT !.out = @ \o lookup[key],
                                        !.changed = TRUE])
            ELSE VAR_RE_sub(s, j + 1, lookup,
                            [acc EXCEPT !.out = @ \o SubSeq(s, i, j),
                                        !.unresolved = append_if_absent(@, key)])

\* One iteration of the loop of resolve_string: one substitution pass.
substitution_pass(cur, unresolved, lookup) ==
  VAR_RE_sub(cur, 1, lookup,
             [out |-> <<>>, unresolved |-> unresolved, changed |-> FALSE])

\* range(max_depth) is exhausted after `passes` iterations.
range_exhausted_after_cap(passes, max_depth) == passes > max_depth
range_exhausted_early(passes, max_depth) == passes + 1 >= max_depth
range_exhausted(passes, max_depth) == passes >= max_depth

\* resolve_string without its closing scan: tokens still in the text after
\* the loop are not reported.
remaining_placeholders_skipped(cur, unresolved) == unresolved

\* "any remaining placeholders": the names of the tokens left in cur are added
\* to unresolved, each once.
RECURSIVE append_all_once(_, _)
append_all_once(list, ks) ==
  IF ks = <<>> THEN list
  ELSE append_all_once(append_if_absent(list, Head(ks)), Tail(ks))

remaining_placeholders(cur, unresolved) ==
  append_all_once(unresolved, VAR_RE_findall(cur, 1))

\* The loop of resolve_string, run to its end: [cur, unresolved, passes].
RECURSIVE resolve_loop(_, _, _, _, _)
resolve_loop(cur, unresolved, lookup, max_depth, passes) ==
  IF range_exhausted(passes, max_depth)
  THEN [cur |-> cur, unresolved |-> unresolved, passes |-> passes]
  ELSE LET p == substitution_pass(cur, unresolved, lookup) IN
       IF ~p.changed
       THEN [cur |-> p.out, unresolved |-> p.unresolved, passes |-> passes + 1]
       ELSE resolve_loop(p.out, p.unresolved, lookup, max_depth, passes + 1)

\* resolve_string(s, lookup, max_depth): the pair (cur, unresolved).
resolve_string(s, lookup, max_depth) ==
  LET r == resolve_loop(s, <<>>, lookup, max_depth, 0) IN
  <<r.cur, remaining_placeholders(r.cur, r.unresolved)>>

\* The default of the max_depth parameter.
DefaultMaxDepth == 10

(***************************************************************************)
(* resolve_string, pass by pass.  rs holds the locals of one call:         *)
(* s, lookup, max_depth (the arguments), cur, unresolved, passes (the      *)
(* number of loop iterations run), changed (the flag of the last pass),    *)
(* pc, and, for a second call on the result of the first, call and first   *)
(* (the first call's arguments and result).                                *)
(***************************************************************************)

NameA == <<"a">>
NameB == <<"b">>
NameC == <<"c">>
NameU == <<"u">>

\* Names that a lookup table may define.
RSNames == {NameA, NameB, NameC}

\* Values a definition may have: a literal, a reference to each name, a
\* reference to a name that is never defined, a self-extending value, a value
\* with a defined and an undefined reference, and an unclosed fragment.
RSValues ==
  { <<"v">>, Tok(NameA), Tok(NameB), Tok(NameC), Tok(NameU),
    <<"x">> \o Tok(NameA), Tok(NameB) \o <<".">> \o Tok(NameU),
    <<"$", "{">> }

\* A name as a properties line can give it: the key of the line x${u=v.
NameX == <<"x", "$", "{", "u">>

\* The lookup of the lines a=${x and x${u=v.
FragmentLookup ==
  [n \in {NameA, NameX} |-> IF n = NameA THEN <<"$", "{", "x">> ELSE <<"v">>]

\* Every lookup table over RSNames, and the lookup with a fragment name.
RSLookups ==
  UNION { [D -> RSValues] : D \in SUBSET RSNames } \cup {FragmentLookup}

\* The strings handed to resolve_string.
RSStrings ==
  { <<"t">>, Tok(NameA), Tok(NameU),
    Tok(NameA) \o <<".">> \o Tok(NameU),
    Tok(NameB) \o Tok(NameC),
    Tok(NameA) \o <<"b", "}">>,
    Tok(NameA) \o Tok(NameU) }

\* The max_depth arguments tried: the default and small caps.
RSDepths == {1, 2, 3, DefaultMaxDepth}

rs_call(s, lookup, max_depth, call, first) ==
  [s |-> s, lookup |-> lookup, max_depth |-> max_depth,
   cur |-> s, unresolved |-> <<>>, passes |-> 0, changed |-> FALSE,
   pc |-> IF range_exhausted(0, max_depth) THEN "rest" ELSE "loop",
   call |-> call, first |-> first]

NoResult == <<>>

InitRS ==
  /\ rs \in { rs_call(s, L, d, 1, NoResult) :
                s \in RSStrings, L \in RSLookups, d \in RSDepths }
  /\ mg = Idle /\ repo = Idle /\ db = Idle /\ sq = Idle /\ g = Idle /\ pl = Idle /\ pt = Idle
  /\ fc = Idle /\ cx = Idle

\* One iteration of "for _ in range(max_depth)": substitute, then leave the
\* loop when nothing changed or the range is exhausted.
RSPass ==
  /\ rs.pc = "loop"
  /\ LET p == substitution_pass(rs.cur, rs.unresolved, rs.lookup) IN
     rs' = [rs EXCEPT !.cur = p.out,
                      !.unresolved = p.unresolved,
                      !.passes = @ + 1,
                      !.changed = p.changed,
                      !.pc = IF ~p.changed
                                \/ range_exhausted(rs.passes + 1, rs.max_depth)
                             THEN "rest" ELSE "loop"]
  /\ UNCHANGED <<mg, repo, db, sq, g, pl, pt, fc, cx>>

\* The code after the loop: collect the remaining placeholders and return.
RSReturn ==
  /\ rs.pc = "rest"
  /\ rs' = [rs EXCEPT !.unresolved = remaining_placeholders(rs.cur, rs.unresolved),
                      !.pc = "done"]
  /\ UNCHANGED <<mg, repo, db, sq, g, pl, pt, fc, cx>>

\* The caller resolves the returned string again with the same lookup.
RSAgain ==
  /\ rs.pc = "done"
  /\ rs.call = 1
  /\ rs' = rs_call(rs.cur, rs.lookup, rs.max_depth, 2,
                   <<rs.s, rs.cur, rs.unresolved, rs.passes>>)
  /\ UNCHANGED <<mg, repo, db, sq, g, pl, pt, fc, cx>>

NextRS == RSPass \/ RSReturn \/ RSAgain

SpecResolveString == InitRS /\ [][NextRS]_vars

(***************************************************************************)
(* Properties of resolve_string                                            *)
(***************************************************************************)

\* The names of the tokens of a text.
Refs(x) == Range(VAR_RE_findall(x, 1))

\* No token of x names a definition of the lookup: a pass over x replaces
\* nothing.
NoneDefined(x, lookup) == \A k \in Refs(x) : k \notin DOMAIN lookup

\* The names reachable from a set of names through the definition values.
RECURSIVE ReachFrom(_, _, _)
ReachFrom(S, lookup, fuel) ==
  LET T == S \cup UNION { Refs(lookup[n]) : n \in S \cap DOMAIN lookup } IN
  IF fuel = 0 \/ T = S THEN S ELSE ReachFrom(T, lookup, fuel - 1)

Reach(x, lookup) == ReachFrom(Refs(x), lookup, Cardinality(DOMAIN lookup) + 1)

\* No name reachable from x is defined, directly or not, in terms of itself.
Acyclic(x, lookup) ==
  \A n \in Reach(x, lookup) \cap DOMAIN lookup : n \notin Reach(lookup[n], lookup)

SetMax(S) == IF S = {} THEN 0 ELSE CHOOSE m \in S : \A k \in S : k <= m

\* The nesting depth of x: 0 without tokens, else one more than the deepest
\* value of a name it refers to.
RECURSIVE Depth(_, _, _)
Depth(x, lookup, fuel) ==
  IF Refs(x) = {} \/ fuel = 0 THEN 0
  ELSE 1 + SetMax({ Depth(lookup[n], lookup, fuel - 1) :
                      n \in Refs(x) \cap DOMAIN lookup })

NestingDepth(x, lookup) == Depth(x, lookup, Cardinality(DOMAIN lookup) + 1)

\* x with every token replaced by the full expansion of its name's value,
\* token by token.
RECURSIVE Expand(_, _, _, _)
Expand(x, i, lookup, fuel) ==
  IF i > Len(x) THEN <<>>
  ELSE LET j == VAR_RE_end(x, i) IN
       IF j = 0 THEN <<x[i]>> \o Expand(x, i + 1, lookup, fuel)
       ELSE LET key == SubSeq(x, i + 2, j - 1) IN
            (IF key \in DOMAIN lookup /\ fuel > 0
             THEN Expand(lookup[key], 1, lookup, fuel - 1)
             ELSE SubSeq(x, i, j))
            \o Expand(x, j + 1, lookup, fuel)

FullyExpanded(x, lookup) == Expand(x, 1, lookup, Cardinality(DOMAIN lookup) + 1)

\* Every "$", "{" and "}" of x belongs to a complete token, and no token name
\* holds a "{" or a "$".
RECURSIVE WellFormedFrom(_, _)
WellFormedFrom(x, i) ==
  IF i > Len(x) THEN TRUE
  ELSE LET j == VAR_RE_end(x, i) IN
       IF j = 0 THEN x[i] \notin {"$", "{", "}"} /\ WellFormedFrom(x, i + 1)
       ELSE /\ \A k \in (i + 2)..(j - 1) : x[k] \notin {"$", "{"}
            /\ WellFormedFrom(x, j + 1)

WellFormed(x, lookup) ==
  WellFormedFrom(x, 1) /\ \A n \in DOMAIN lookup : WellFormedFrom(lookup[n], 1)

\* C4: resolve_string terminates on every string and lookup table, cyclic
\* ones included: it never runs more than max_depth passes; it is in the loop
\* only below the cap and only while every pass so far replaced something; it
\* leaves the loop before the cap only after a pass that replaced nothing,
\* with no defined token left; and the returned list names every token left
\* in the returned string.
C4_Terminates ==
  /\ rs.pc \in {"loop", "rest", "done"}
  /\ rs.passes <= rs.max_depth
  /\ rs.pc = "loop" =>
       /\ rs.passes < rs.max_depth
       /\ rs.passes >= 1 => rs.changed
  /\ (rs.pc \in {"rest", "done"} /\ rs.passes < rs.max_depth) =>
       /\ rs.passes >= 1
       /\ ~rs.changed
       /\ NoneDefined(rs.cur, rs.lookup)
  /\ rs.pc = "done" => Refs(rs.cur) \subseteq Range(rs.unresolved)

\* C4 witness: a call with the default cap that ran all its passes on a cyclic
\* lookup and returned with a defined token still in place.
C4_Witness ==
  /\ rs.pc = "done"
  /\ rs.max_depth = DefaultMaxDepth
  /\ rs.passes = DefaultMaxDepth
  /\ ~NoneDefined(rs.cur, rs.lookup)

C6_Hypotheses(s, lookup, max_depth) ==
  /\ Acyclic(s, lookup)
  /\ Reach(s, lookup) \subseteq DOMAIN lookup
  /\ NestingDepth(s, lookup) <= max_depth

\* C6 as claimed: with acyclic definitions, every reachable name defined and
\* nesting depth at most max_depth, the call returns the string with every
\* token replaced by its fully expanded value and no leftover name (here for
\* the default cap).
C6_TransitiveAlways ==
  (rs.pc = "done" /\ rs.call = 1 /\ rs.max_depth = DefaultMaxDepth
     /\ C6_Hypotheses(rs.s, rs.lookup, rs.max_depth)) =>
       /\ rs.cur = FullyExpanded(rs.s, rs.lookup)
       /\ rs.unresolved = <<>>

\* C6 amended: the same, for a string and definition values in which every
\* "$", "{" and "}" belongs to a complete ${name} token.
C6_TransitiveWellFormed ==
  (rs.pc = "done" /\ rs.call = 1
     /\ WellFormed(rs.s, rs.lookup)
     /\ C6_Hypotheses(rs.s, rs.lookup, rs.max_depth)) =>
       /\ rs.cur = FullyExpanded(rs.s, rs.lookup)
       /\ rs.unresolved = <<>>
       /\ Refs(rs.cur) = {}

\* C6 witness: a chain nested exactly max_depth deep, resolved to its literal.
C6_Witness ==
  /\ rs.pc = "done" /\ rs.call = 1
  /\ WellFormed(rs.s, rs.lookup)
  /\ C6_Hypotheses(rs.s, rs.lookup, rs.max_depth)
  /\ NestingDepth(rs.s, rs.lookup) = rs.max_depth
  /\ rs.max_depth = 3
  /\ rs.cur = <<"v">>
  /\ rs.unresolved = <<>>

\* The tokens of x whose name the lookup does not define, as written.
RECURSIVE AbsentTokens(_, _, _)
AbsentTokens(x, i, lookup) ==
  IF i > Len(x) THEN {}
  ELSE LET j == VAR_RE_end(x, i) IN
       IF j = 0 THEN AbsentTokens(x, i + 1, lookup)
       ELSE (IF SubSeq(x, i + 2, j - 1) \in DOMAIN lookup THEN {}
             ELSE {SubSeq(x, i, j)})
            \cup AbsentTokens(x, j + 1, lookup)

Occurs(t, x) ==
  \E i \in 1..(Len(x) - Len(t) + 1) : SubSeq(x, i, i + Len(t) - 1) = t

TimesIn(list, k) == Cardinality({ i \in 1..Len(list) : list[i] = k })

\* Every token of the input with an undefined name is in the output as
\* written, and its name is in the leftover list exactly once.
AbsentTokensKept ==
  \A t \in AbsentTokens(rs.s, 1, rs.lookup) :
    /\ Occurs(t, rs.cur)
    /\ TimesIn(rs.unresolved, SubSeq(t, 3, Len(t) - 1)) = 1

\* C16 as claimed: resolve_string keeps every token of the input whose name
\* the lookup does not define, lists the name of each such token once, and
\* lists only names that the lookup does not define.
C16_OnlyAbsentNames ==
  rs.pc = "done" =>
    /\ AbsentTokensKept
    /\ \A k \in Range(rs.unresolved) : k \notin DOMAIN rs.lookup

(***************************************************************************)
(* resolver.py: VarDef, merge_definitions                                  *)
(***************************************************************************)

VarDef(name, value, defined_in, kind) ==
  [name |-> name, value |-> value, defined_in |-> defined_in, kind |-> kind]

\* precedence.get(kind, 0)
precedence(kind) ==
  CASE kind = "properties" -> 3
    [] kind = "oozie_conf" -> 2
    [] kind = "maven_props" -> 1
    [] OTHER -> 0

\* "precedence.get(d.kind, 0) > precedence.get(chosen[d.name].kind, 0)"
outranks_never(d, c) == FALSE
outranks(d, c) == precedence(d.kind) > precedence(c.kind)

\* A dict with key k set to v.
DictSet(dict, k, v) ==
  [x \in DOMAIN dict \cup {k} |-> IF x = k THEN v ELSE dict[x]]

EmptyDict == [x \in {} |-> <<>>]

\* The body of the inner loop of merge_definitions for one definition d.
merge_one(acc, d) ==
  [all_defs |->
     DictSet(acc.all_defs, d.name,
             IF d.name \in DOMAIN acc.all_defs
             THEN Append(acc.all_defs[d.name], d) ELSE <<d>>),
   chosen |->
     IF d.name \notin DOMAIN acc.chosen THEN DictSet(acc.chosen, d.name, d)
     ELSE IF outranks(d, acc.chosen[d.name]) THEN DictSet(acc.chosen, d.name, d)
     ELSE acc.chosen]

RECURSIVE merge_list(_, _)
merge_list(acc, defs) ==
  IF defs = <<>> THEN acc
  ELSE merge_list(merge_one(acc, Head(defs)), Tail(defs))

RECURSIVE merge_lists(_, _)
merge_lists(acc, def_lists) ==
  IF def_lists = <<>> THEN acc
  ELSE merge_lists(merge_list(acc, Head(def_lists)), Tail(def_lists))

\* merge_definitions(def_lists): [chosen, all_defs].
merge_definitions(def_lists) ==
  merge_lists([chosen |-> EmptyDict, all_defs |-> EmptyDict], def_lists)

(***************************************************************************)
(* merge_definitions on every short list of definitions, in every order.   *)
(* mg holds def_lists (the argument) and, once merged, chosen and all_defs.*)
(***************************************************************************)

\* The longest list of definitions merged.
MaxDefs == 3

MGKinds == {"properties", "oozie_conf", "maven_props"}

\* The file a definition of each kind comes from.
MGFile(kind) ==
  CASE kind = "properties" -> "job.properties"
    [] kind = "oozie_conf" -> "workflow.xml"
    [] OTHER -> "pom.xml"

MGDefs ==
  { VarDef(n, v, MGFile(k), k) :
      n \in {NameA, NameB}, v \in {<<"1">>, <<"2">>}, k \in MGKinds }

\* Every list of at most MaxDefs definitions, handed over as one list or cut
\* in two.
MGDefLists ==
  UNION { { <<SubSeq(ds, 1, cut), SubSeq(ds, cut + 1, Len(ds))>> :
              cut \in {0, Len(ds) \div 2} } :
          ds \in UNION { [1..n -> MGDefs] : n \in 0..MaxDefs } }

InitMG ==
  /\ mg \in { [pc |-> "start", def_lists |-> dl,
               chosen |-> EmptyDict, all_defs |-> EmptyDict] : dl \in MGDefLists }
  /\ rs = Idle /\ repo = Idle /\ db = Idle /\ sq = Idle /\ g = Idle /\ pl = Idle /\ pt = Idle
  /\ fc = Idle /\ cx = Idle

MergeDefinitions ==
  /\ mg.pc = "start"
  /\ LET m == merge_definitions(mg.def_lists) IN
     mg' = [mg EXCEPT !.pc = "merged", !.chosen = m.chosen, !.all_defs = m.all_defs]
  /\ UNCHANGED <<rs, repo, db, sq, g, pl, pt, fc, cx>>

NextMG == MergeDefinitions

SpecMerge == InitMG /\ [][NextMG]_vars

\* The definitions handed to merge_definitions, in scan order.
RECURSIVE Flatten(_)
Flatten(lists) == IF lists = <<>> THEN <<>> ELSE Head(lists) \o Flatten(Tail(lists))

\* C2: for every name and every order of the scanned definitions the winner
\* is one of the name's definitions and comes from the highest-ranked source
\* kind among them (properties > oozie_conf > maven_props); a name defined in
\* a properties file and in a configuration block gets a properties value.
C2_Precedence ==
  mg.pc = "merged" =>
    LET scanned == Flatten(mg.def_lists) IN
    /\ DOMAIN mg.chosen = { d.name : d \in Range(scanned) }
    /\ \A n \in DOMAIN mg.chosen :
         LET mine == { d \in Range(scanned) : d.name = n } IN
         /\ mg.chosen[n] \in mine
         /\ \A d \in mine :
              /\ d.kind = "properties" => mg.chosen[n].kind = "properties"
              /\ (d.kind = "oozie_conf" /\ mg.chosen[n].kind # "properties") =>
                    mg.chosen[n].kind = "oozie_conf"

\* C2 witness: a name whose configuration-block definition is scanned before
\* its properties definition, and whose winner is the properties value.
C2_Witness ==
  /\ mg.pc = "merged"
  /\ LET scanned == Flatten(mg.def_lists) IN
     \E i, j \in 1..Len(scanned) :
       /\ i < j
       /\ scanned[i].name = NameA /\ scanned[j].name = NameA
       /\ scanned[i].kind = "oozie_conf" /\ scanned[j].kind = "properties"
       /\ scanned[i].value # scanned[j].value
       /\ mg.chosen[NameA] = scanned[j]

(***************************************************************************)
(* resolver.py: build_definitions_from_repo and resolve_repository         *)
(*                                                                         *)
(* A file is [path, detected_type, syntax, entries]: entries are the       *)
(* key/value pairs written in it, in order, in the syntax of the file      *)
(* ("kv" lines, <property> blocks, or tags of a pom <properties> block).   *)
(* A field is an extracted string, [kind, what, value].                    *)
(***************************************************************************)

\* dict[k] = v for each entry in turn: a key keeps the place of its first
\* entry and takes the value of its last.  The dict is a list of entries.
RECURSIVE dict_of(_, _)
dict_of(acc, entries) ==
  IF entries = <<>> THEN acc
  ELSE LET e == Head(entries) IN
       dict_of(IF \E i \in 1..Len(acc) : acc[i].name = e.name
               THEN [i \in 1..Len(acc) |->
                       IF acc[i].name = e.name THEN e ELSE acc[i]]
               ELSE Append(acc, e),
               Tail(entries))

\* The three parsers, each reading the entries written in its own syntax.
parse_properties_text(f) ==
  IF f.syntax = "kv" THEN dict_of(<<>>, f.entries) ELSE <<>>
parse_oozie_configuration(f) ==
  IF f.syntax = "property" THEN dict_of(<<>>, f.entries) ELSE <<>>
parse_maven_properties(f) ==
  IF f.syntax = "pomtag" THEN dict_of(<<>>, f.entries) ELSE <<>>

\* p.name.endswith(".properties"), p.suffix.lower() == ".xml" and
\* p.name.lower() == "pom.xml" on the paths of the model.
EndsWithProperties(path) == path \in {"job.properties"}
SuffixIsXml(path) == path \in {"workflow.xml", "pom.xml"}
IsPomXml(path) == path \in {"pom.xml"}

\* ftype.startswith("oozie_")
StartsWithOozie(ftype) ==
  ftype \in {"oozie_workflow_xml", "oozie_coordinator_xml", "oozie_bundle_xml"}

defs_of_kind(f, d, kind) ==
  [i \in 1..Len(d) |-> VarDef(d[i].name, d[i].value, f.path, kind)]

\* The definitions that one file adds, in the order of the three tests.
defs_of_file(f) ==
  (IF f.detected_type \in {"properties", "ini_conf"} \/ EndsWithProperties(f.path)
   THEN defs_of_kind(f, parse_properties_text(f), "properties") ELSE <<>>)
  \o
  (IF StartsWithOozie(f.detected_type) \/ SuffixIsXml(f.path)
   THEN defs_of_kind(f, parse_oozie_configuration(f), "oozie_conf") ELSE <<>>)
  \o
  (IF IsPomXml(f.path) \/ f.detected_type = "build_maven"
   THEN defs_of_kind(f, parse_maven_properties(f), "maven_props") ELSE <<>>)

RECURSIVE build_definitions_from_repo(_)
build_definitions_from_repo(files_index) ==
  IF files_index = <<>> THEN <<>>
  ELSE defs_of_file(Head(files_index))
       \o build_definitions_from_repo(Tail(files_index))

\* The double-quote and the backquote characters.
DQuote == "dquote"
BQuote == "bquote"

\* Code-point order of the characters of the model, for sorted().
Alphabet ==
  <<" ", DQuote, "$", ".", "/", "1", "2", ":", "<", ">", "[", "]", "_", BQuote,
    "a", "b", "c", "d", "e", "f", "i", "n", "o", "p", "s", "t", "u", "v", "w",
    "x", "{", "}">>

CharRank(ch) == CHOOSE i \in 1..Len(Alphabet) : Alphabet[i] = ch

RECURSIVE StrLess(_, _)
StrLess(x, y) ==
  IF y = <<>> THEN FALSE
  ELSE IF x = <<>> THEN TRUE
  ELSE IF Head(x) = Head(y) THEN StrLess(Tail(x), Tail(y))
  ELSE CharRank(Head(x)) < CharRank(Head(y))

\* sorted(S)
RECURSIVE sorted(_)
sorted(S) ==
  IF S = {} THEN <<>>
  ELSE LET least == CHOOSE x \in S : \A y \in S \ {x} : StrLess(x, y) IN
       <<least>> \o sorted(S \ {least})

\* Step 2 of resolve_repository on one extracted string field: the rewritten
\* field and, when tokens are left over, its audit record.
resolve_str_field(fld, lookup) ==
  Only({ [field |-> [fld EXCEPT !.value = r[1]],
          hits |-> IF r[2] # <<>>
                   THEN <<[kind |-> fld.kind, what |-> fld.what,
                           unresolved |-> r[2]]>>
                   ELSE <<>>] :
         r \in {resolve_string(fld.value, lookup, DefaultMaxDepth)} })

\* "if isinstance(val, str)": a field that holds a list is left as it is.
resolve_field(fld, lookup) ==
  IF fld.type = "str" THEN resolve_str_field(fld, lookup)
  ELSE [field |-> fld, hits |-> <<>>]

RECURSIVE resolve_fields(_, _)
resolve_fields(fields, lookup) ==
  IF fields = <<>> THEN [fields |-> <<>>, hits |-> <<>>]
  ELSE Only({ [fields |-> <<one.field>> \o rest.fields,
               hits |-> one.hits \o rest.hits] :
              one \in {resolve_field(Head(fields), lookup)},
              rest \in {resolve_fields(Tail(fields), lookup)} })

\* _collect_from_str over the fields read in step 3: the findings and the
\* workflow and coordinator fields were rewritten in place in step 2, the
\* lineage records were copied, and workflow_path, start, end and timezone
\* are not read.
collect_from_str(fld) ==
  IF fld.type = "str" THEN Range(VAR_RE_findall(fld.value, 1))
  ELSE UNION { Range(VAR_RE_findall(fld.value[j], 1)) : j \in 1..Len(fld.value) }

vars_seen(raw_fields, resolved_fields) ==
  UNION { collect_from_str(IF raw_fields[i].kind = "lineage" THEN raw_fields[i]
                           ELSE resolved_fields[i]) :
          i \in { k \in 1..Len(raw_fields) :
                    raw_fields[k].what \notin
                      {"workflow_path", "start", "end", "timezone"} } }

\* The set `seen`: "for k in lookup.keys(): seen.add(k)".  vars_seen is
\* collected and never added.
seen(lookup, collected) == DOMAIN lookup

NoDefinitionFound == <<"<", "n", "o", "_", "d", "e", "f", ">">>

\* The loop "for k in sorted(seen)": one record per name, in that order.
classify_name(k, lookup) ==
  IF k \in DOMAIN lookup
  THEN Only({ [name |-> k, in_final_lookup |-> TRUE, value |-> r[1],
               in_unresolved_vars |-> r[2] # <<>>, why |-> r[2]] :
              r \in {resolve_string(lookup[k], lookup, DefaultMaxDepth)} })
  ELSE [name |-> k, in_final_lookup |-> FALSE, value |-> <<>>,
        in_unresolved_vars |-> TRUE, why |-> <<NoDefinitionFound>>]

definitions_of(k, all_defs) ==
  LET ds == IF k \in DOMAIN all_defs THEN all_defs[k] ELSE <<>> IN
  [i \in 1..Len(ds) |->
     [value |-> ds[i].value, defined_in |-> ds[i].defined_in, kind |-> ds[i].kind]]

IsPartial(c) == c.in_final_lookup /\ c.in_unresolved_vars
IsResolved_with_leftover(c) == c.in_final_lookup
IsResolved(c) == c.in_final_lookup /\ ~c.in_unresolved_vars
IsUnresolved(c) == c.in_unresolved_vars /\ ~c.in_final_lookup

\* The lists returned, made of the classified names.
variable_lists(lookup, all_defs, step2, res, part, unres) ==
  [lookup |-> lookup,
   all_defs |-> all_defs,
   resolved_variables |->
     [i \in 1..Len(res) |->
        [name |-> res[i].name, value |-> res[i].value,
         definitions |-> definitions_of(res[i].name, all_defs)]],
   partially_resolved_variables |->
     [i \in 1..Len(part) |->
        [name |-> part[i].name, raw_value |-> lookup[part[i].name],
         resolved_value |-> part[i].value, unresolved_parts |-> part[i].why,
         definitions |-> definitions_of(part[i].name, all_defs)]],
   still_unresolved_variables |->
     [i \in 1..Len(unres) |->
        [name |-> unres[i].name, reason |-> unres[i].why,
         definitions_found |-> definitions_of(unres[i].name, all_defs)]],
   resolved_fields |-> step2.fields,
   unresolved_hits |-> step2.hits]

\* Step 3: the names of `seen` in sorted order, classified.
classified_names(lookup, all_defs, raw_fields, step2) ==
  Only({ variable_lists(lookup, all_defs, step2,
                        SelectSeq(cls, IsResolved), SelectSeq(cls, IsPartial),
                        SelectSeq(cls, IsUnresolved)) :
         cls \in { [i \in 1..Len(names) |-> classify_name(names[i], lookup)] :
                   names \in {sorted(seen(lookup,
                                          vars_seen(raw_fields, step2.fields)))} } })

\* Steps 2 and 3, on the winners of step 1.
resolve_with(merged, lookup, raw_fields) ==
  Only({ classified_names(lookup, merged.all_defs, raw_fields, step2) :
         step2 \in {resolve_fields(raw_fields, lookup)} })

\* resolve_repository: everything it returns, and its locals lookup and
\* all_defs.
resolve_repository(files_index, raw_fields) ==
  Only({ resolve_with(merged,
                      [k \in DOMAIN merged.chosen |-> merged.chosen[k].value],
                      raw_fields) :
         merged \in {merge_definitions(
                       <<build_definitions_from_repo(files_index)>>)} })

(***************************************************************************)
(* resolve_repository on small repositories.  repo holds files_index and   *)
(* raw_fields (the arguments) and, once resolved, out (the result).        *)
(***************************************************************************)

\* The most files in a repository.
MaxFiles == 2

NameW == <<"w">>

Entry(name, value) == [name |-> name, value |-> value]

\* The definitions written in the files: a literal, a self-reference, the
\* two halves of a mutual cycle, and references to an undefined name.
RepoEntries ==
  { Entry(NameA, <<"s">>), Entry(NameA, Tok(NameA)), Entry(NameA, Tok(NameB)),
    Entry(NameA, Tok(NameU)),
    Entry(NameB, <<"t">>), Entry(NameB, Tok(NameA)), Entry(NameB, Tok(NameU)) }

\* The three definition files, with the type that the scanner gives each
\* (pom.xml is xml_generic: the .xml test of the scanner comes first).
RepoFileKinds ==
  { [path |-> "job.properties", detected_type |-> "properties", syntax |-> "kv"],
    [path |-> "workflow.xml", detected_type |-> "oozie_workflow_xml",
     syntax |-> "property"],
    [path |-> "pom.xml", detected_type |-> "xml_generic", syntax |-> "pomtag"] }

\* The lines of a file: one definition, or a name written twice, with
\* another name between or not.
RepoEntryLists ==
  { <<e>> : e \in RepoEntries }
  \cup { <<Entry(NameA, <<"s">>), Entry(NameA, Tok(NameU))>>,
         <<Entry(NameA, Tok(NameU)), Entry(NameA, <<"s">>)>>,
         <<Entry(NameA, <<"s">>), Entry(NameB, <<"t">>),
           Entry(NameA, Tok(NameB))>> }

RepoFiles ==
  { [path |-> k.path, detected_type |-> k.detected_type, syntax |-> k.syntax,
     entries |-> es] : k \in RepoFileKinds, es \in RepoEntryLists }

Field(kind, what, value) ==
  [kind |-> kind, what |-> what, value |-> value, type |-> "str"]

\* A field that holds a list of strings, as the args of a parsed action.
ListField(kind, what, items) ==
  [kind |-> kind, what |-> what, value |-> items, type |-> "list"]

\* The extracted strings of a run: none, a finding with a defined name, a
\* workflow path with a name no file mentions, a coordinator field together
\* with a lineage name, and the main class and the arguments of an action.
RepoFieldInputs ==
  { <<>>,
    <<Field("action", "main", Tok(NameA) \o <<".", "x">>),
      ListField("action", "args", <<Tok(NameA), <<"x">>>>)>>,
    <<Field("finding", "value", Tok(NameA) \o <<"/", "x">>)>>,
    <<Field("workflow", "app_path", Tok(NameW))>>,
    <<Field("coordinator", "frequency", Tok(NameW)),
      Field("lineage", "source_name", Tok(NameB) \o <<".", "t">>)>> }

InitRepo ==
  /\ repo \in { [pc |-> "extracted", files_index |-> fs, raw_fields |-> flds,
                 out |-> <<>>] :
                fs \in UNION { [1..n -> RepoFiles] : n \in 0..MaxFiles },
                flds \in RepoFieldInputs }
  /\ rs = Idle /\ mg = Idle /\ db = Idle /\ sq = Idle /\ g = Idle /\ pl = Idle /\ pt = Idle
  /\ fc = Idle /\ cx = Idle

ResolveRepository ==
  /\ repo.pc = "extracted"
  /\ repo' = [repo EXCEPT !.pc = "resolved",
                          !.out = resolve_repository(repo.files_index,
                                                     repo.raw_fields)]
  /\ UNCHANGED <<rs, mg, db, sq, g, pl, pt, fc, cx>>

NextRepo == ResolveRepository

SpecRepo == InitRepo /\ [][NextRepo]_vars

(***************************************************************************)
(* Properties of resolve_repository                                        *)
(***************************************************************************)

NamesOf(list) == { list[i].name : i \in 1..Len(list) }

ResolvedNames == NamesOf(repo.out.resolved_variables)
PartialNames == NamesOf(repo.out.partially_resolved_variables)
UnresolvedNames == NamesOf(repo.out.still_unresolved_variables)

\* Every name written as a key in a file.
DefinedNames ==
  UNION { NamesOf(repo.files_index[i].entries) :
            i \in 1..Len(repo.files_index) }

\* The strings that a field holds.
StringsOf(fld) == IF fld.type = "str" THEN {fld.value} ELSE Range(fld.value)

\* Every name a token refers to, in a definition value or in an extracted
\* field.
ReferencedNames ==
  UNION { UNION { Refs(e.value) : e \in Range(repo.files_index[i].entries) } :
            i \in 1..Len(repo.files_index) }
  \cup UNION { UNION { Refs(x) : x \in StringsOf(repo.raw_fields[i]) } :
                 i \in 1..Len(repo.raw_fields) }

\* C1: after resolve_repository the resolved, partially resolved and still
\* unresolved name sets are pairwise disjoint, their union is every name
\* that is defined or referenced by a token, and every referenced name
\* without a definition is listed as unresolved.
C1_Partition ==
  repo.pc = "resolved" =>
    /\ ResolvedNames \cap PartialNames = {}
    /\ ResolvedNames \cap UnresolvedNames = {}
    /\ PartialNames \cap UnresolvedNames = {}
    /\ ResolvedNames \cup PartialNames \cup UnresolvedNames
         = DefinedNames \cup ReferencedNames
    /\ \A n \in ReferencedNames \ DefinedNames : n \in UnresolvedNames

\* A name defined, directly or through other definitions, in terms of itself.
OnCycle(n, lookup) == n \in DOMAIN lookup /\ n \in Reach(lookup[n], lookup)

PartialRecord(n) ==
  LET l == repo.out.partially_resolved_variables IN
  l[CHOOSE i \in 1..Len(l) : l[i].name = n]

UndefinedReached(n, lookup) == Reach(lookup[n], lookup) \ DOMAIN lookup

\* The value of n reaches a name that is on a definition cycle.
ReachesCycle(n, lookup) ==
  \E k \in Reach(lookup[n], lookup) : OnCycle(k, lookup)

\* A defined name is in exactly one of the two lists: resolved when the
\* substitution of its winner value leaves nothing over.
ResolvedWithoutLeftover ==
  \A n \in DOMAIN repo.out.lookup :
    /\ n \in ResolvedNames \cup PartialNames
    /\ n \notin ResolvedNames \cap PartialNames
    /\ n \in ResolvedNames <=> UndefinedReached(n, repo.out.lookup) = {}
                               /\ ~ReachesCycle(n, repo.out.lookup)

KindOfSyntax(syntax) ==
  CASE syntax = "kv" -> "properties"
    [] syntax = "property" -> "oozie_conf"
    [] syntax = "pomtag" -> "maven_props"

\* Every definition written in the scanned files, line by line, in scan
\* order.
RECURSIVE WrittenFrom(_, _)
WrittenFrom(files_index, i) ==
  IF i > Len(files_index) THEN <<>>
  ELSE [j \in 1..Len(files_index[i].entries) |->
          VarDef(files_index[i].entries[j].name,
                 files_index[i].entries[j].value,
                 files_index[i].path, KindOfSyntax(files_index[i].syntax))]
       \o WrittenFrom(files_index, i + 1)

WrittenOf(n) == SelectSeq(WrittenFrom(repo.files_index, 1), LAMBDA d : d.name = n)

TopRanked(ds) ==
  SelectSeq(ds, LAMBDA d : \A k \in 1..Len(ds) :
                  precedence(d.kind) >= precedence(ds[k].kind))

\* C18: the winner of a name is the first, in scan order, of its definitions
\* of the winning source kind, whether these stand in different files or on
\* different lines of one file.
C18_FirstOfEqualRank ==
  repo.pc = "resolved" =>
    \A n \in DOMAIN repo.out.lookup :
      repo.out.lookup[n] = TopRanked(WrittenOf(n))[1].value

AuditRecord(d) == [value |-> d.value, defined_in |-> d.defined_in, kind |-> d.kind]

\* The audit list reported with the record of n, in whichever list n is.
AuditLists(n) ==
  { repo.out.resolved_variables[i].definitions :
      i \in { k \in 1..Len(repo.out.resolved_variables) :
                repo.out.resolved_variables[k].name = n } }
  \cup
  { repo.out.partially_resolved_variables[i].definitions :
      i \in { k \in 1..Len(repo.out.partially_resolved_variables) :
                repo.out.partially_resolved_variables[k].name = n } }
  \cup
  { repo.out.still_unresolved_variables[i].definitions_found :
      i \in { k \in 1..Len(repo.out.still_unresolved_variables) :
                repo.out.still_unresolved_variables[k].name = n } }

\* C19: the audit list of every reported name holds every definition of the
\* name written in a scanned file, in scan order and whatever its rank; the
\* winner value is the value of one of them; the names with a winner are the
\* names with a non-empty audit list.
C19_AuditComplete ==
  repo.pc = "resolved" =>
    /\ \A n \in ResolvedNames \cup PartialNames \cup UnresolvedNames :
         \A audit \in AuditLists(n) :
           /\ audit = [j \in 1..Len(WrittenOf(n)) |-> AuditRecord(WrittenOf(n)[j])]
           /\ n \in DOMAIN repo.out.lookup =>
                \E j \in 1..Len(audit) : audit[j].value = repo.out.lookup[n]
    /\ DOMAIN repo.out.lookup
         = { n \in ResolvedNames \cup PartialNames \cup UnresolvedNames :
               \E audit \in AuditLists(n) : audit # <<>> }

\* C20: after resolve_repository no extracted field (finding value,
\* workflow path, action main class or argument, coordinator field, lineage
\* table name) holds a token whose name has a winner, unless the name is on
\* or leads to a definition cycle.
C20_Propagation ==
  repo.pc = "resolved" =>
    \A i \in 1..Len(repo.out.resolved_fields) :
      \A x \in StringsOf(repo.out.resolved_fields[i]) :
        \A n \in Refs(x) \cap DOMAIN repo.out.lookup :
          OnCycle(n, repo.out.lookup) \/ ReachesCycle(n, repo.out.lookup)

(***************************************************************************)
(* dependency/graph.py: ensure_node, add_edge and build_dependency_graph   *)
(*                                                                         *)
(* A Graph is [nodes, edges]: nodes a dict from node id to                 *)
(* [id, type, meta], edges a list of GraphEdge.  A dict is a function; a   *)
(* missing key and None are both None, and a missing meta is the empty     *)
(* dict that "meta or {}" makes of it.                                     *)
(***************************************************************************)

None == "None"

\* Python truthiness of an optional string.
Truthy(x) == x # None /\ x # ""

\* "x or y"
OrElse(x, y) == IF Truthy(x) THEN x ELSE y

GraphEdge(src, dst, edge_type, confidence, evidence) ==
  [src |-> src, dst |-> dst, edge_type |-> edge_type,
   confidence |-> confidence, evidence |-> evidence]

\* Graph(nodes={}, edges=[])
EmptyGraph == [nodes |-> EmptyDict, edges |-> <<>>]

\* An ensure_node that stores the node whether or not the id is present.
ensure_node_overwriting(graph, node_id, node_type, meta) ==
  [graph EXCEPT !.nodes =
     DictSet(graph.nodes, node_id,
             [id |-> node_id, type |-> node_type,
              meta |-> meta])]

ensure_node(graph, node_id, node_type, meta) ==
  IF node_id \notin DOMAIN graph.nodes
  THEN [graph EXCEPT !.nodes =
          DictSet(graph.nodes, node_id,
                  [id |-> node_id, type |-> node_type,
                   meta |-> meta])]
  ELSE graph

\* add_edge with the default confidence "med".
add_edge(graph, src, dst, edge_type, evidence) ==
  [graph EXCEPT !.edges =
     Append(graph.edges, GraphEdge(src, dst, edge_type, "med", evidence))]

\* _node_id: f"{prefix}:{val}"
node_id_of(prefix, val) == prefix \o ":" \o val

\* "for key in (...)": ensure the node of each string the record holds
\* under one of the keys, and add the edge to it from node `from`.
RECURSIVE reference_keys(_, _, _, _, _, _)
reference_keys(graph, rec, keys, from, prefix, node_type) ==
  IF keys = <<>> THEN graph
  ELSE LET key == Head(keys)
           v == rec[key]
           to == node_id_of(prefix, v)
           next == IF Truthy(v)
                   THEN add_edge(ensure_node(graph, to, node_type,
                                             [kind |-> key]),
                                 from, to, "references", key \o "=" \o v)
                   ELSE graph
       IN reference_keys(next, rec, Tail(keys), from, prefix, node_type)

\* The body of "for act in wf.get('actions', [])".
RECURSIVE build_actions(_, _, _, _, _)
build_actions(graph, acts, wf_name, wf_src, wf_node) ==
  IF acts = <<>> THEN graph
  ELSE LET act == Head(acts)
           act_name == OrElse(act.name, OrElse(act.type, "action"))
           act_node == node_id_of("action", wf_name \o "/" \o act_name)
           g1 == ensure_node(graph, act_node, "action",
                             [type |-> act.type, source_file |-> wf_src])
           g2 == add_edge(g1, wf_node, act_node, "contains",
                          "workflow=" \o wf_name)
           g3 == reference_keys(g2, act, <<"main", "script", "class", "args">>,
                                act_node, "ref", "reference")
       IN build_actions(g3, Tail(acts), wf_name, wf_src, wf_node)

\* The body of "for wf in workflows_blob.get('workflows', [])".
build_workflow(graph, wf) ==
  LET wf_name == OrElse(wf.name, OrElse(wf.id, "workflow"))
      wf_src == OrElse(wf.source_file, OrElse(wf.file, ""))
      wf_node == node_id_of("workflow", wf_name)
      g1 == ensure_node(graph, wf_node, "workflow", [source_file |-> wf_src])
      g2 == reference_keys(g1, wf, <<"app_path", "workflow_path">>,
                           wf_node, "path", "path")
  IN build_actions(g2, wf.actions, wf_name, wf_src, wf_node)

\* The body of "for c in workflows_blob.get('coordinators', [])".
build_coordinator(graph, c) ==
  LET c_name == OrElse(c.name, OrElse(c.id, "coordinator"))
      c_src == OrElse(c.source_file, OrElse(c.file, ""))
      c_node == node_id_of("coordinator", c_name)
      g1 == ensure_node(graph, c_node, "coordinator",
                        [source_file |-> c_src, frequency |-> c.frequency,
                         start |-> c.start, end |-> c.end,
                         timezone |-> c.timezone])
      wf_app == c.workflow_app_path
      to == node_id_of("path", wf_app)
  IN IF Truthy(wf_app)
     THEN add_edge(ensure_node(g1, to, "path", [kind |-> "workflow_app_path"]),
                   c_node, to, "triggers", "workflow_app_path=" \o wf_app)
     ELSE g1

(***************************************************************************)
(* A graph under construction.  g holds the Graph object and the last      *)
(* call made on it.                                                        *)
(***************************************************************************)

\* The most edges in a graph.
MaxEdges == 3

Workflow(name, source_file, app_path, workflow_path, actions) ==
  [name |-> name, id |-> None, source_file |-> source_file, file |-> None,
   app_path |-> app_path, workflow_path |-> workflow_path, actions |-> actions]

Action(name, type, script) ==
  [name |-> name, type |-> type, main |-> None, script |-> script,
   class |-> None, args |-> None]

Coordinator(name, source_file, frequency, workflow_app_path) ==
  [name |-> name, id |-> None, source_file |-> source_file, file |-> None,
   frequency |-> frequency, start |-> None, end |-> None, timezone |-> None,
   workflow_app_path |-> workflow_app_path]

\* Two documents named etl in different files, both naming /apps/etl under
\* different keys, and a document without a name.
GraphWorkflows ==
  { Workflow("etl", "a/workflow.xml", "/apps/etl", None,
             <<Action("load", "hive", "load.hql")>>),
    Workflow("etl", "b/workflow.xml", None, "/apps/etl", <<>>),
    Workflow(None, None, None, None, <<Action(None, None, None)>>) }

GraphCoordinators ==
  { Coordinator("daily", "a/coordinator.xml", "1440", "/apps/etl"),
    Coordinator(None, None, None, None) }

GraphIds == { node_id_of("workflow", "etl"), node_id_of("path", "/apps/etl") }
\* The (node_type, meta) arguments of the direct ensure_node calls.
GraphNodeArgs == { <<"workflow", EmptyDict>>, <<"path", [kind |-> "app_path"]>> }

Call(op, node_id, node_type, meta, existed) ==
  [op |-> op, node_id |-> node_id, node_type |-> node_type, meta |-> meta,
   existed |-> existed]

InitGraph ==
  /\ g = [pc |-> "open", graph |-> EmptyGraph,
          last |-> Call("Graph", None, None, EmptyDict, FALSE)]
  /\ rs = Idle /\ mg = Idle /\ repo = Idle /\ db = Idle /\ sq = Idle /\ pl = Idle /\ pt = Idle
  /\ fc = Idle /\ cx = Idle

EnsureNode ==
  /\ g.pc = "open"
  /\ \E node_id \in GraphIds, args \in GraphNodeArgs :
       g' = [g EXCEPT
               !.graph = ensure_node(g.graph, node_id, args[1], args[2]),
               !.last = Call("ensure_node", node_id, args[1], args[2],
                             node_id \in DOMAIN g.graph.nodes)]
  /\ UNCHANGED <<rs, mg, repo, db, sq, pl, pt, fc, cx>>

AddEdge ==
  /\ g.pc = "open"
  /\ Len(g.graph.edges) < MaxEdges
  /\ \E src \in GraphIds, dst \in GraphIds :
       g' = [g EXCEPT
               !.graph = add_edge(g.graph, src, dst, "references", None),
               !.last = Call("add_edge", src, None, EmptyDict, FALSE)]
  /\ UNCHANGED <<rs, mg, repo, db, sq, pl, pt, fc, cx>>

BuildWorkflow ==
  /\ g.pc = "open"
  /\ \E wf \in GraphWorkflows :
       LET built == build_workflow(g.graph, wf) IN
       /\ Len(built.edges) <= MaxEdges
       /\ g' = [g EXCEPT !.graph = built,
                         !.last = Call("build_workflow", None, None,
                                       EmptyDict, FALSE)]
  /\ UNCHANGED <<rs, mg, repo, db, sq, pl, pt, fc, cx>>

BuildCoordinator ==
  /\ g.pc = "open"
  /\ \E c \in GraphCoordinators :
       LET built == build_coordinator(g.graph, c) IN
       /\ Len(built.edges) <= MaxEdges
       /\ g' = [g EXCEPT !.graph = built,
                         !.last = Call("build_coordinator", None, None,
                                       EmptyDict, FALSE)]
  /\ UNCHANGED <<rs, mg, repo, db, sq, pl, pt, fc, cx>>

NextGraph == EnsureNode \/ AddEdge \/ BuildWorkflow \/ BuildCoordinator

SpecGraph == InitGraph /\ [][NextGraph]_vars

(***************************************************************************)
(* Properties of the dependency graph                                      *)
(***************************************************************************)

IsPrefix(s, u) == Len(s) <= Len(u) /\ \A i \in 1..Len(s) : u[i] = s[i]

\* Each node is stored under its own id.
NodeKeyed == \A k \in DOMAIN g.graph.nodes : g.graph.nodes[k].id = k

\* A step keeps every node as it was and every edge in its place.
AppendOnly ==
  /\ \A k \in DOMAIN g.graph.nodes :
       k \in DOMAIN g'.graph.nodes /\ g'.graph.nodes[k] = g.graph.nodes[k]
  /\ IsPrefix(g.graph.edges, g'.graph.edges)

\* C10: after any sequence of ensure_node and add_edge calls each node's id
\* field equals its key in the node map (so one node per id kind:value), a
\* call of ensure_node on an id already present leaves that node's type and
\* meta as they were, and no node or edge is ever removed or changed.
C10_NodeIdentity == []NodeKeyed /\ [][AppendOnly]_vars

\* ensure_node has been called on an id already present with a type other
\* than the stored one, after an edge was added.
C10_Witness ==
  /\ g.pc = "open"
  /\ g.last.op = "ensure_node" /\ g.last.existed
  /\ g.graph.nodes[g.last.node_id].type # g.last.node_type
  /\ g.graph.nodes[g.last.node_id].meta # g.last.meta
  /\ g.graph.edges # <<>>

(***************************************************************************)
(* build_dependency_graph, call by call.  The body of each loop iteration  *)
(* is the list of ensure_node and add_edge calls it makes, in the order of *)
(* the code; a step of the run makes the next call.                        *)
(***************************************************************************)

EnsureNodeCall(node_id, node_type, meta) ==
  [op |-> "ensure_node", node_id |-> node_id, node_type |-> node_type,
   meta |-> meta]

AddEdgeCall(src, dst, edge_type, evidence) ==
  [op |-> "add_edge", src |-> src, dst |-> dst, edge_type |-> edge_type,
   evidence |-> evidence]

\* The calls of one referenced string: the node, then the edge to it.
node_then_edge(from, to, node_type, meta, edge_type, evidence) ==
  <<EnsureNodeCall(to, node_type, meta),
    AddEdgeCall(from, to, edge_type, evidence)>>

\* The edge alone, without the call that makes its target node.
edge_only(from, to, node_type, meta, edge_type, evidence) ==
  <<AddEdgeCall(from, to, edge_type, evidence)>>

reference_call(from, to, node_type, meta, edge_type, evidence) ==
  node_then_edge(from, to, node_type, meta, edge_type, evidence)

RECURSIVE reference_calls(_, _, _, _, _)
reference_calls(rec, keys, from, prefix, node_type) ==
  IF keys = <<>> THEN <<>>
  ELSE (IF Truthy(rec[Head(keys)])
          THEN reference_call(from, node_id_of(prefix, rec[Head(keys)]),
                              node_type, [kind |-> Head(keys)], "references",
                              Head(keys) \o "=" \o rec[Head(keys)])
        ELSE <<>>)
       \o reference_calls(rec, Tail(keys), from, prefix, node_type)

action_node(wf_name, act) ==
  node_id_of("action",
             wf_name \o "/" \o OrElse(act.name, OrElse(act.type, "action")))

RECURSIVE action_calls(_, _, _, _)
action_calls(acts, wf_name, wf_src, wf_node) ==
  IF acts = <<>> THEN <<>>
  ELSE <<EnsureNodeCall(action_node(wf_name, Head(acts)), "action",
                        [type |-> Head(acts).type, source_file |-> wf_src]),
         AddEdgeCall(wf_node, action_node(wf_name, Head(acts)), "contains",
                     "workflow=" \o wf_name)>>
       \o reference_calls(Head(acts), <<"main", "script", "class", "args">>,
                          action_node(wf_name, Head(acts)), "ref", "reference")
       \o action_calls(Tail(acts), wf_name, wf_src, wf_node)

workflow_calls(wf) ==
  Only({ <<EnsureNodeCall(wf_node, "workflow", [source_file |-> wf_src])>>
         \o reference_calls(wf, <<"app_path", "workflow_path">>, wf_node,
                            "path", "path")
         \o action_calls(wf.actions, wf_name, wf_src, wf_node) :
         wf_name \in {OrElse(wf.name, OrElse(wf.id, "workflow"))},
         wf_src \in {OrElse(wf.source_file, OrElse(wf.file, ""))},
         wf_node \in {node_id_of("workflow",
                                 OrElse(wf.name, OrElse(wf.id, "workflow")))} })

coordinator_calls(c) ==
  Only({ <<EnsureNodeCall(c_node, "coordinator",
                          [source_file |-> OrElse(c.source_file,
                                                  OrElse(c.file, "")),
                           frequency |-> c.frequency, start |-> c.start,
                           end |-> c.end, timezone |-> c.timezone])>>
         \o (IF Truthy(c.workflow_app_path)
               THEN reference_call(c_node,
                                   node_id_of("path", c.workflow_app_path),
                                   "path", [kind |-> "workflow_app_path"],
                                   "triggers",
                                   "workflow_app_path=" \o c.workflow_app_path)
             ELSE <<>>) :
         c_node \in {node_id_of("coordinator",
                                OrElse(c.name, OrElse(c.id, "coordinator")))} })

\* The most workflows and the most coordinators in workflows_blob.
MaxGraphDocs == 2

\* The record of a document that could not be parsed has a source file and
\* no name.
BuiltWorkflows ==
  GraphWorkflows \cup {Workflow(None, "c/workflow.xml", None, None, <<>>)}

BuiltCoordinators ==
  GraphCoordinators \cup {Coordinator(None, "c/coordinator.xml", None, None)}

InitBuild ==
  /\ g \in { [pc |-> "building", graph |-> EmptyGraph, workflows |-> wfs,
               coordinators |-> coords, done |-> 0, calls |-> <<>>,
               before |-> EmptyGraph] :
             wfs \in UNION { [1..n -> BuiltWorkflows] : n \in 0..MaxGraphDocs },
             coords \in UNION { [1..n -> BuiltCoordinators] :
                                  n \in 0..MaxGraphDocs } }
  /\ rs = Idle /\ mg = Idle /\ repo = Idle /\ db = Idle /\ sq = Idle
  /\ pl = Idle /\ pt = Idle /\ fc = Idle /\ cx = Idle

BuildFrame == UNCHANGED <<rs, mg, repo, db, sq, pl, pt, fc, cx>>

\* for wf in workflows_blob.get("workflows", [])
ForWorkflow ==
  /\ g.pc = "building" /\ g.calls = <<>>
  /\ g.done < Len(g.workflows)
  /\ g' = [g EXCEPT !.done = @ + 1, !.before = g.graph,
                    !.calls = workflow_calls(g.workflows[g.done + 1])]
  /\ BuildFrame

\* for c in workflows_blob.get("coordinators", [])
ForCoordinator ==
  /\ g.pc = "building" /\ g.calls = <<>>
  /\ g.done >= Len(g.workflows)
  /\ g.done < Len(g.workflows) + Len(g.coordinators)
  /\ g' = [g EXCEPT !.done = @ + 1, !.before = g.graph,
                    !.calls = coordinator_calls(
                                g.coordinators[g.done + 1 - Len(g.workflows)])]
  /\ BuildFrame

CallEnsureNode ==
  /\ g.pc = "building" /\ g.calls # <<>>
  /\ Head(g.calls).op = "ensure_node"
  /\ g' = [g EXCEPT !.calls = Tail(@),
                    !.graph = ensure_node(@, Head(g.calls).node_id,
                                          Head(g.calls).node_type,
                                          Head(g.calls).meta)]
  /\ BuildFrame

CallAddEdge ==
  /\ g.pc = "building" /\ g.calls # <<>>
  /\ Head(g.calls).op = "add_edge"
  /\ g' = [g EXCEPT !.calls = Tail(@),
                    !.graph = add_edge(@, Head(g.calls).src, Head(g.calls).dst,
                                       Head(g.calls).edge_type,
                                       Head(g.calls).evidence)]
  /\ BuildFrame

\* return asdict(g)
ReturnGraph ==
  /\ g.pc = "building" /\ g.calls = <<>>
  /\ g.done = Len(g.workflows) + Len(g.coordinators)
  /\ g' = [g EXCEPT !.pc = "returned"]
  /\ BuildFrame

NextBuild ==
  ForWorkflow \/ ForCoordinator \/ CallEnsureNode \/ CallAddEdge \/ ReturnGraph

SpecBuild == InitBuild /\ [][NextBuild]_vars

\* The calls of an iteration, once all made, give the graph of the body.
CallsMatchBody ==
  (g.pc = "building" /\ g.calls = <<>> /\ g.done > 0) =>
    g.graph = IF g.done <= Len(g.workflows)
                THEN build_workflow(g.before, g.workflows[g.done])
              ELSE build_coordinator(g.before,
                     g.coordinators[g.done - Len(g.workflows)])

EdgeTypes == {"contains", "references", "triggers"}

\* C30: at every point of build_dependency_graph, and so in the graph it
\* returns, the src and the dst of every edge are ids of nodes of the node
\* map, whatever the workflows and coordinators (failed records and
\* documents sharing a name among them).
C30_EdgeEndpointsExist ==
  \A k \in 1..Len(g.graph.edges) :
    /\ g.graph.edges[k].edge_type \in EdgeTypes
    /\ g.graph.edges[k].src \in DOMAIN g.graph.nodes
    /\ g.graph.edges[k].dst \in DOMAIN g.graph.nodes

\* A returned graph of two workflows named etl, the second a failed record
\* or not, and a coordinator, with edges of the three types.
C30_Witness ==
  /\ g.pc = "returned"
  /\ Len(g.workflows) = 2
  /\ g.workflows[1].name = "etl" /\ g.workflows[2].name = "etl"
  /\ \E i \in 1..Len(g.coordinators) : g.coordinators[i].name = None
  /\ EdgeTypes = { g.graph.edges[k].edge_type : k \in 1..Len(g.graph.edges) }

(***************************************************************************)
(* extraction/database_schema_parser.py: DatabaseSchemaParser              *)
(*                                                                         *)
(* A SQL text is a list of lines; a line is [kind, written]: one statement *)
(* of the given kind (USE x, ... FROM x, ... JOIN x, INSERT INTO x,        *)
(* DELETE FROM x) with the characters written where its name goes.         *)
(***************************************************************************)

\* None where a name is expected: no text, since a character is one
\* character long.
NoName == <<"None">>

\* Truthiness of an optional name.
HasName(x) == x # NoName /\ x # <<>>

\* \w on the characters of the model.
WordChars ==
  {"_", "1", "2", "a", "b", "c", "d", "e", "f", "i", "n", "o", "p", "s", "t",
   "u", "v", "w", "x"}

\* [\w\.\$\{\}:]
NameChars == WordChars \cup {".", "$", "{", "}", ":"}

\* The group of the name patterns, matched at the start of the written
\* characters: an optional opening quote, the longest run of class
\* characters, an optional closing quote.  <<>> when there is no match.
name_group(written, class) ==
  LET start == IF written # <<>> /\ written[1] \in {BQuote, DQuote, "["}
               THEN 2 ELSE 1
      stops == { i \in start..Len(written) : written[i] \notin class }
      last == IF stops = {} THEN Len(written)
              ELSE (CHOOSE i \in stops : \A j \in stops : i <= j) - 1
      close == IF last + 1 <= Len(written) /\ written[last + 1] \in {BQuote, DQuote, "]"}
               THEN last + 1 ELSE last
  IN IF last < start THEN <<>> ELSE SubSeq(written, 1, close)

\* str.strip(chars)
RECURSIVE lstrip(_, _)
lstrip(x, chars) ==
  IF x # <<>> /\ Head(x) \in chars THEN lstrip(Tail(x), chars) ELSE x

RECURSIVE rstrip(_, _)
rstrip(x, chars) ==
  IF x # <<>> /\ x[Len(x)] \in chars
  THEN rstrip(SubSeq(x, 1, Len(x) - 1), chars) ELSE x

strip(x, chars) == rstrip(lstrip(x, chars), chars)

clean_identifier(name) == strip(strip(name, {BQuote, DQuote, "[", "]"}), {" "})

\* ALL_VAR_RE.search(x)
has_variables(x) == VAR_RE_findall(x, 1) # <<>>

\* full_name.index("$")
IndexOfDollar(full_name) ==
  CHOOSE i \in 1..Len(full_name) :
    full_name[i] = "$" /\ \A j \in 1..(i - 1) : full_name[j] # "$"

\* The loop of parse_qualified_name over the characters from position i:
\* acc is [parts, current, in_variable].  A "$" opens a variable when the
\* FIRST "$" of the name is followed by "{".
RECURSIVE split_parts(_, _, _)
split_parts(full_name, i, acc) ==
  IF i > Len(full_name) THEN acc
  ELSE LET char == full_name[i]
           first == IndexOfDollar(full_name)
       IN
       split_parts(full_name, i + 1,
         IF char = "$" /\ Len(full_name) > first /\ full_name[first + 1] = "{"
         THEN [acc EXCEPT !.in_variable = TRUE,
                          !.current = Append(acc.current, char)]
         ELSE IF char = "}" /\ acc.in_variable
         THEN [acc EXCEPT !.in_variable = FALSE,
                          !.current = Append(acc.current, char)]
         ELSE IF char = "." /\ ~acc.in_variable
         THEN IF acc.current # <<>>
              THEN [acc EXCEPT
                      !.parts = Append(acc.parts, clean_identifier(acc.current)),
                      !.current = <<>>]
              ELSE acc
         ELSE [acc EXCEPT !.current = Append(acc.current, char)])

\* parse_qualified_name: <<database, schema, table>>
parse_qualified_name(full_name) ==
  LET done == split_parts(full_name, 1,
                          [parts |-> <<>>, current |-> <<>>,
                           in_variable |-> FALSE])
      parts == IF done.current # <<>>
               THEN Append(done.parts, clean_identifier(done.current))
               ELSE done.parts
  IN IF Len(parts) = 1 THEN <<NoName, NoName, parts[1]>>
     ELSE IF Len(parts) = 2 THEN <<parts[1], NoName, parts[2]>>
     ELSE IF Len(parts) = 3 THEN <<parts[1], parts[2], parts[3]>>
     ELSE <<NoName, NoName, full_name>>

\* str.upper() on the letters of the model.
UpperChar(ch) ==
  CASE ch = "a" -> "A" [] ch = "b" -> "B" [] ch = "c" -> "C" [] ch = "d" -> "D"
    [] ch = "e" -> "E" [] ch = "f" -> "F" [] ch = "i" -> "I" [] ch = "n" -> "N"
    [] ch = "o" -> "O" [] ch = "p" -> "P" [] ch = "s" -> "S" [] ch = "t" -> "T"
    [] ch = "u" -> "U" [] ch = "v" -> "V" [] ch = "w" -> "W" [] ch = "x" -> "X"
    [] OTHER -> ch

Upper(x) == [i \in 1..Len(x) |-> UpperChar(x[i])]

SkippedKeywords ==
  { <<"I", "F">>, <<"N", "O", "T">>, <<"E", "X", "I", "S", "T", "S">>,
    <<"E", "X", "T", "E", "R", "N", "A", "L">>, <<"T", "A", "B", "L", "E">> }

\* Whether the pattern of an operation matches a line: each statement is
\* matched by its own pattern, and DELETE FROM x also by the FROM pattern.
PatternMatches(pattern, kind) ==
  kind = pattern \/ (pattern = "FROM" /\ kind = "DELETE")

\* extract_use_statements, on the lines from number i.
RECURSIVE extract_use_statements(_, _)
extract_use_statements(text, i) ==
  IF i > Len(text) THEN <<>>
  ELSE LET grp == IF text[i].kind = "USE"
                  THEN name_group(text[i].written, WordChars) ELSE <<>>
       IN (IF grp # <<>>
           THEN <<[database |-> clean_identifier(grp), line |-> i]>>
           ELSE <<>>)
          \o extract_use_statements(text, i + 1)

\* The confidence of a reference.
confidence_of(database, schema, has_vars) ==
  IF has_vars
  THEN IF HasName(database) /\ has_variables(database) THEN "low" ELSE "medium"
  ELSE IF HasName(database) \/ HasName(schema) THEN "high"
  ELSE "medium"

\* The TableReference made of one match, once its name is parsed.
reference_record(full_name, operation, i, has_vars, database, schema, table) ==
  [full_name |-> full_name, database |-> database, schema |-> schema,
   table |-> table, operation |-> operation, line_number |-> i,
   confidence |-> confidence_of(database, schema, has_vars),
   has_variables |-> has_vars]

\* The body of the loop over the matches: the name takes the active
\* database when it has none of its own and no variable.
table_reference(full_name, operation, i, active_database) ==
  Only({ IF ~HasName(parsed[1]) /\ HasName(active_database) /\ ~has_vars
         THEN reference_record(full_name, operation, i, has_vars,
                               active_database, NoName, parsed[3])
         ELSE reference_record(full_name, operation, i, has_vars,
                               parsed[1], parsed[2], parsed[3]) :
         has_vars \in {has_variables(full_name)},
         parsed \in {parse_qualified_name(full_name)} })

\* The cleaned names the pattern finds in a line, keywords skipped.
matched_names(line, pattern) ==
  { full_name \in
      { clean_identifier(grp) :
          grp \in (IF PatternMatches(pattern, line.kind)
                   THEN {name_group(line.written, NameChars)} ELSE {}) \ {<<>>} } :
      Upper(full_name) \notin SkippedKeywords }

\* extract_table_references for one pattern, on the lines from number i.
RECURSIVE extract_table_references(_, _, _, _, _)
extract_table_references(text, operation, pattern, active_database, i) ==
  IF i > Len(text) THEN <<>>
  ELSE (IF matched_names(text[i], pattern) # {}
        THEN <<Only({ table_reference(full_name, operation, i, active_database) :
                      full_name \in matched_names(text[i], pattern) })>>
        ELSE <<>>)
       \o extract_table_references(text, operation, pattern,
                                   active_database, i + 1)

IsQualified(ref) == HasName(ref.database) \/ HasName(ref.schema)

\* The end of extract_databases_and_schemas: the DatabaseContext made of
\* the references (variables_found left out).
database_context(use_stmts, active_database, source_refs, target_refs) ==
  Only({ [databases |->
            sorted({ refs[i].database : i \in { k \in 1..Len(refs) :
                       HasName(refs[k].database)
                       /\ ~has_variables(refs[k].database) } }
                   \cup { use_stmts[i].database : i \in 1..Len(use_stmts) }),
          schemas |->
            sorted({ refs[i].schema : i \in { k \in 1..Len(refs) :
                       HasName(refs[k].schema) } }),
          use_statements |-> use_stmts,
          source_tables |-> source_refs,
          target_tables |-> target_refs,
          qualified_tables |->
            [i \in 1..Len(qualified) |->
               [full_name |-> qualified[i].full_name,
                database |-> qualified[i].database,
                schema |-> qualified[i].schema, table |-> qualified[i].table]],
          unqualified_tables |->
            sorted({ refs[i].table : i \in { k \in 1..Len(refs) :
                       ~IsQualified(refs[k]) } }),
          active_database |-> active_database] :
         refs \in {source_refs \o target_refs},
         qualified \in {SelectSeq(source_refs \o target_refs, IsQualified)} })

\* The references of every operation, each extracted with the one active
\* database.  The patterns of the model's statements, in the order of the
\* code.
references_with(text, use_stmts, active_database) ==
  Only({ database_context(use_stmts, active_database,
                          selects \o joins, inserts \o deletes) :
         selects \in {extract_table_references(text, "SELECT", "FROM",
                                               active_database, 1)},
         joins \in {extract_table_references(text, "JOIN", "JOIN",
                                             active_database, 1)},
         inserts \in {extract_table_references(text, "INSERT", "INSERT",
                                               active_database, 1)},
         deletes \in {extract_table_references(text, "DELETE", "DELETE",
                                               active_database, 1)} })

\* active_database = use_stmts[-1]["database"] if use_stmts else None
last_use(use_stmts) ==
  IF use_stmts # <<>> THEN use_stmts[Len(use_stmts)].database ELSE NoName

extract_databases_and_schemas(text) ==
  Only({ references_with(text, use_stmts, last_use(use_stmts)) :
         use_stmts \in {extract_use_statements(text, 1)} })

(***************************************************************************)
(* extract_databases_and_schemas on small SQL texts.  db holds the text    *)
(* and, once extracted, the context.                                       *)
(***************************************************************************)

\* The most lines in a SQL text.
MaxLines == 3

Line(kind, written) == [kind |-> kind, written |-> written]

\* USE a / USE b, and references: bare, qualified, with a variable as the
\* database, as the schema or as the table, with a variable that holds a
\* dot (alone and after a stray "$"), backquoted, three-part, and as a
\* join, insert and delete target.
DbLines ==
  { Line("USE", <<"a">>), Line("USE", <<"b">>),
    Line("FROM", <<"c">>), Line("FROM", <<"s", ".", "c">>),
    Line("FROM", Tok(<<"d">>) \o <<".", "c">>),
    Line("FROM", <<BQuote, "c", BQuote>>),
    Line("FROM", <<"p", ".", "s", ".", "c">>),
    Line("FROM", <<"p", ".">> \o Tok(<<"d">>) \o <<".", "c">>),
    Line("FROM", <<"s", ".">> \o Tok(<<"d">>)),
    Line("FROM", Tok(<<"d", ".", "c">>) \o <<".", "t">>),
    Line("FROM", <<"x", "$", ".">> \o Tok(<<"d", ".", "c">>)),
    Line("JOIN", <<"t">>), Line("INSERT", <<"t">>), Line("DELETE", <<"c">>) }

InitDb ==
  /\ db \in { [pc |-> "read", text |-> txt, out |-> <<>>] :
              txt \in UNION { [1..n -> DbLines] : n \in 0..MaxLines } }
  /\ rs = Idle /\ mg = Idle /\ repo = Idle /\ sq = Idle /\ g = Idle /\ pl = Idle /\ pt = Idle
  /\ fc = Idle /\ cx = Idle

ExtractDatabasesAndSchemas ==
  /\ db.pc = "read"
  /\ db' = [db EXCEPT !.pc = "extracted",
                      !.out = extract_databases_and_schemas(db.text)]
  /\ UNCHANGED <<rs, mg, repo, sq, g, pl, pt, fc, cx>>

NextDb == ExtractDatabasesAndSchemas

SpecDb == InitDb /\ [][NextDb]_vars

(***************************************************************************)
(* Properties of extract_databases_and_schemas                             *)
(***************************************************************************)

\* The database set by the most recent USE statement before line i.
PrecedingUse(text, i) ==
  LET uses == { k \in 1..(i - 1) :
                  text[k].kind = "USE"
                  /\ name_group(text[k].written, WordChars) # <<>> }
  IN IF uses = {} THEN NoName
     ELSE clean_identifier(
            name_group(text[CHOOSE k \in uses : \A j \in uses : j <= k].written,
                       WordChars))

AllRefs == db.out.source_tables \o db.out.target_tables

\* C8: every unqualified, placeholder-free table reference takes as its
\* database the one set by the most recent USE statement before it in the
\* file, and a reference promoted so is in the qualified list and not in
\* the unqualified set.
C8_ActiveDatabaseThreading ==
  db.pc = "extracted" =>
    \A i \in 1..Len(AllRefs) :
      LET ref == AllRefs[i] IN
      (parse_qualified_name(ref.full_name)[1] = NoName /\ ~ref.has_variables) =>
        /\ ref.database = PrecedingUse(db.text, ref.line_number)
        /\ HasName(ref.database) =>
             /\ \E q \in Range(db.out.qualified_tables) :
                  q.full_name = ref.full_name /\ q.database = ref.database
             /\ ref.table \notin Range(db.out.unqualified_tables)

\* The parts of a written name cut at the dots that lie outside ${...}:
\* current is the part being read, inside whether a placeholder is open.
RECURSIVE atomic_parts(_, _, _, _)
atomic_parts(x, i, current, inside) ==
  IF i > Len(x) THEN (IF current # <<>> THEN <<current>> ELSE <<>>)
  ELSE IF ~inside /\ x[i] = "$" /\ i < Len(x) /\ x[i + 1] = "{"
    THEN atomic_parts(x, i + 1, Append(current, x[i]), TRUE)
  ELSE IF inside /\ x[i] = "}"
    THEN atomic_parts(x, i + 1, Append(current, x[i]), FALSE)
  ELSE IF ~inside /\ x[i] = "."
    THEN (IF current # <<>> THEN <<current>> ELSE <<>>)
         \o atomic_parts(x, i + 1, <<>>, FALSE)
  ELSE atomic_parts(x, i + 1, Append(current, x[i]), inside)

\* <<catalog, schema, table>> of a name as it is written.
WrittenTriple(full_name) ==
  LET parts == atomic_parts(full_name, 1, <<>>, FALSE) IN
  IF Len(parts) = 1 THEN <<NoName, NoName, parts[1]>>
  ELSE IF Len(parts) = 2 THEN <<parts[1], NoName, parts[2]>>
  ELSE IF Len(parts) = 3 THEN <<parts[1], parts[2], parts[3]>>
  ELSE <<NoName, NoName, full_name>>

ExplicitPart(part) == HasName(part) /\ ~has_variables(part)

PlaceholderPart(part) == HasName(part) /\ has_variables(part)

\* C22: a reference has confidence high exactly when, as written, it has a
\* catalog or schema part without placeholder; an unqualified reference
\* that takes the active database has confidence medium; a reference
\* whose catalog or schema part holds a placeholder has confidence low.
C22_ConfidenceRule ==
  db.pc = "extracted" =>
    \A i \in 1..Len(AllRefs) :
      LET ref == AllRefs[i]
          w == WrittenTriple(ref.full_name)
      IN /\ (ref.confidence = "high") <=> (ExplicitPart(w[1]) \/ ExplicitPart(w[2]))
         /\ ( /\ ~HasName(w[1]) /\ ~HasName(w[2]) /\ ~ref.has_variables
              /\ HasName(ref.database) ) => ref.confidence = "medium"
         /\ (PlaceholderPart(w[1]) \/ PlaceholderPart(w[2]))
              => ref.confidence = "low"

\* C23: the catalog, schema and table of every reference are the parts of
\* its name cut at the dots outside placeholders, so every placeholder of
\* the name lies whole inside one of them.
C23_PlaceholdersAtomic ==
  db.pc = "extracted" =>
    \A i \in 1..Len(AllRefs) :
      LET ref == AllRefs[i] IN
      /\ <<ref.database, ref.schema, ref.table>>
           \in { WrittenTriple(ref.full_name),
                 <<PrecedingUse(db.text, Len(db.text) + 1), NoName,
                   WrittenTriple(ref.full_name)[3]>> }
      /\ \A k \in 1..Len(VAR_RE_findall(ref.full_name, 1)) :
           \E part \in {ref.database, ref.schema, ref.table} :
             Occurs(Tok(VAR_RE_findall(ref.full_name, 1)[k]), part)

(***************************************************************************)
(* extraction/sql_complexity_analyzer.py: SQLComplexityAnalyzer            *)
(*                                                                         *)
(* A SQL text is the list of its words and punctuation marks, as they are  *)
(* after _normalize_sql; the texts of the model hold no comments.  The     *)
(* patterns are matched word by word, ignoring case where the code passes  *)
(* IGNORECASE.                                                             *)
(***************************************************************************)

\* str.upper() on the words of the model.
UpperWord(w) ==
  CASE w \in {"select", "Select"} -> "SELECT"
    [] w \in {"from", "From"} -> "FROM"
    [] w \in {"join", "Join"} -> "JOIN"
    [] w \in {"cross", "Cross"} -> "CROSS"
    [] w \in {"left", "Left"} -> "LEFT"
    [] w \in {"outer", "Outer"} -> "OUTER"
    [] w \in {"inner", "Inner"} -> "INNER"
    [] w = "on" -> "ON"
    [] w = "where" -> "WHERE"
    [] w = "exists" -> "EXISTS"
    [] w = "in" -> "IN"
    [] w = "max" -> "MAX"
    [] w = "ta" -> "TA" [] w = "tb" -> "TB" [] w = "tc" -> "TC"
    [] w = "td" -> "TD" [] w = "te" -> "TE" [] w = "tf" -> "TF"
    [] w = "tg" -> "TG" [] w = "th" -> "TH" [] w = "ti" -> "TI"
    [] OTHER -> w

\* The word at position i in upper case, "" past the end.
UpperAt(sql, i) == IF i <= Len(sql) THEN UpperWord(sql[i]) ELSE ""

\* How many words JOIN_PATTERN matches at position i (0: no match).  The
\* alternatives are tried in the order of the pattern.
join_match_length(sql, i) ==
  IF UpperAt(sql, i) = "INNER" /\ UpperAt(sql, i + 1) = "JOIN" THEN 2
  ELSE IF UpperAt(sql, i) \in {"LEFT", "RIGHT", "FULL"}
          /\ UpperAt(sql, i + 1) = "OUTER" /\ UpperAt(sql, i + 2) = "JOIN" THEN 3
  ELSE IF UpperAt(sql, i) \in {"LEFT", "RIGHT", "FULL"}
          /\ UpperAt(sql, i + 1) = "JOIN" THEN 2
  ELSE IF UpperAt(sql, i) = "CROSS" /\ UpperAt(sql, i + 1) = "JOIN" THEN 2
  ELSE IF UpperAt(sql, i) = "JOIN" THEN 1
  ELSE 0

\* JOIN_PATTERN.findall(sql): the matched words, as written.
RECURSIVE JOIN_PATTERN_findall(_, _)
JOIN_PATTERN_findall(sql, i) ==
  IF i > Len(sql) THEN <<>>
  ELSE LET n == join_match_length(sql, i) IN
       IF n = 0 THEN JOIN_PATTERN_findall(sql, i + 1)
       ELSE <<SubSeq(sql, i, i + n - 1)>> \o JOIN_PATTERN_findall(sql, i + n)

\* join.strip().replace('OUTER', '').strip(): the word OUTER, written so,
\* is emptied; the other words stay as written.
join_type(join) ==
  [i \in 1..Len(join) |-> IF join[i] = "OUTER" THEN "" ELSE join[i]]

\* join_types.get(key, 0)
CountOf(types, key) == Cardinality({ i \in 1..Len(types) : types[i] = key })

\* A word a \w+ group can match.
IsWordLike(w) == w \notin {"(", ")", "=", ""}

\* The first groups of the matches of KEYWORD\s+(\w+)\s+(\w+), upper-cased.
aliased_tables(sql, keyword) ==
  [ k \in { i \in 1..Len(sql) :
              /\ UpperAt(sql, i) = keyword
              /\ IsWordLike(UpperAt(sql, i + 1))
              /\ IsWordLike(UpperAt(sql, i + 2)) } |-> UpperAt(sql, k + 1) ]

\* _detect_self_join: some table name is followed by an alias twice.
detect_self_join(sql) ==
  LET froms == aliased_tables(sql, "FROM")
      joins == aliased_tables(sql, "JOIN")
  IN \/ \E i, j \in DOMAIN froms : i # j /\ froms[i] = froms[j]
     \/ \E i, j \in DOMAIN joins : i # j /\ joins[i] = joins[j]
     \/ \E i \in DOMAIN froms, j \in DOMAIN joins : froms[i] = joins[j]

\* 'CROSS JOIN' in sql.upper()
contains_cross_join(sql) ==
  \E i \in 1..Len(sql) : UpperAt(sql, i) = "CROSS" /\ UpperAt(sql, i + 1) = "JOIN"

Max(a, b) == IF a >= b THEN a ELSE b
Min(a, b) == IF a <= b THEN a ELSE b

analyze_joins(sql) ==
  LET joins == JOIN_PATTERN_findall(sql, 1)
      total_joins == Len(joins)
      join_types == [i \in 1..Len(joins) |-> join_type(joins[i])]
      has_self_join == detect_self_join(sql)
  IN [total_joins |-> total_joins,
      cross_joins_counted |-> CountOf(join_types, <<"CROSS", "JOIN">>),
      has_self_join |-> has_self_join,
      has_cross_join |-> contains_cross_join(sql),
      join_complexity_score |->
        total_joins * 5
        + CountOf(join_types, <<"CROSS", "JOIN">>) * 15
        + (IF has_self_join THEN 10 ELSE 0)
        + Max(0, (total_joins - 3) * 3)]

\* _calculate_subquery_depth, from position i with the depths so far.
RECURSIVE paren_depth(_, _, _, _)
paren_depth(sql, i, current_depth, max_depth) ==
  IF i > Len(sql) THEN max_depth
  ELSE IF sql[i] = "("
  THEN paren_depth(sql, i + 1, current_depth + 1,
                   Max(max_depth, current_depth + 1))
  ELSE IF sql[i] = ")"
  THEN paren_depth(sql, i + 1, Max(0, current_depth - 1), max_depth)
  ELSE paren_depth(sql, i + 1, current_depth, max_depth)

calculate_subquery_depth(sql) == Min(paren_depth(sql, 1, 0, 0) \div 2, 10)

\* The least position from i on where the word is w, 0 when there is none.
NextWord(sql, i, w) ==
  LET at == { k \in i..Len(sql) : UpperAt(sql, k) = w } IN
  IF at = {} THEN 0 ELSE CHOOSE k \in at : \A j \in at : k <= j

\* The matches of WHERE.*?=.*?\(.*?SELECT from position i: each starts at
\* the next WHERE and runs to the first SELECT after the first "(" after
\* the first "=" after it.
RECURSIVE correlated_matches(_, _)
correlated_matches(sql, i) ==
  LET w == NextWord(sql, i, "WHERE")
      e == IF w = 0 THEN 0 ELSE NextWord(sql, w + 1, "=")
      o == IF e = 0 THEN 0 ELSE NextWord(sql, e + 1, "(")
      s == IF o = 0 THEN 0 ELSE NextWord(sql, o + 1, "SELECT")
  IN IF s = 0 THEN 0 ELSE 1 + correlated_matches(sql, s + 1)

analyze_subqueries(sql) ==
  LET total_subqueries ==
        Cardinality({ i \in 1..Len(sql) :
                        sql[i] = "(" /\ UpperAt(sql, i + 1) = "SELECT" })
      max_depth == calculate_subquery_depth(sql)
      correlated == correlated_matches(sql, 1)
  IN [total_subqueries |-> total_subqueries,
      max_nesting_depth |-> max_depth,
      correlated_subqueries |-> correlated,
      subquery_complexity_score |->
        total_subqueries * 8 + max_depth * 10 + correlated * 12]

AggregateFunctions ==
  {"COUNT", "SUM", "AVG", "MIN", "MAX", "STDDEV", "VARIANCE", "STRING_AGG",
   "ARRAY_AGG", "LISTAGG", "GROUP_CONCAT"}

\* _analyze_aggregates on texts without GROUP BY, HAVING and DISTINCT.
analyze_aggregates(sql) ==
  LET total_aggs ==
        Cardinality({ i \in 1..Len(sql) :
                        UpperAt(sql, i) \in AggregateFunctions
                        /\ UpperAt(sql, i + 1) = "(" })
  IN [total_aggregates |-> total_aggs, distinct_aggregates |-> 0,
      aggregate_complexity_score |-> total_aggs * 3]

classify_complexity(score) ==
  IF score <= 20 THEN "simple"
  ELSE IF score <= 50 THEN "moderate"
  ELSE IF score <= 80 THEN "complex"
  ELSE "very_complex"

\* _identify_risk_flags: the flags the joins, the subqueries and the
\* aggregates can raise, in the order of the code.
identify_risk_flags(join_analysis, subquery_analysis, aggregate_analysis) ==
  (IF join_analysis.total_joins > 5 THEN <<"many_joins">> ELSE <<>>)
  \o (IF join_analysis.has_cross_join THEN <<"cross_join">> ELSE <<>>)
  \o (IF join_analysis.has_self_join THEN <<"self_join">> ELSE <<>>)
  \o (IF subquery_analysis.max_nesting_depth > 3
      THEN <<"deep_nesting">> ELSE <<>>)
  \o (IF subquery_analysis.correlated_subqueries > 0
      THEN <<"correlated_subqueries">> ELSE <<>>)
  \o (IF aggregate_analysis.distinct_aggregates > 2
      THEN <<"distinct_aggregates">> ELSE <<>>)

\* analyze_query.  The texts of the model hold no WITH, window function,
\* set operation, CASE or DDL word, so those five analyses score 0 and
\* raise no flag.
analyze_query(sql) ==
  LET join_analysis == analyze_joins(sql)
      subquery_analysis == analyze_subqueries(sql)
      aggregate_analysis == analyze_aggregates(sql)
      total_score == join_analysis.join_complexity_score
                     + subquery_analysis.subquery_complexity_score
                     + 0 + 0
                     + aggregate_analysis.aggregate_complexity_score
                     + 0 + 0 + 0
  IN [join_analysis |-> join_analysis,
      subquery_analysis |-> subquery_analysis,
      aggregate_analysis |-> aggregate_analysis,
      total_complexity_score |-> total_score,
      complexity_level |-> classify_complexity(total_score),
      risk_flags |-> identify_risk_flags(join_analysis, subquery_analysis,
                                         aggregate_analysis)]

(***************************************************************************)
(* analyze_query on small queries.  sq holds the query as it was put       *)
(* together (its join keywords, its filter), the text, and the result.     *)
(***************************************************************************)

\* The most join clauses in a query.
MaxJoins == 6

\* The join keywords, in several letter cases.
JoinSpellings ==
  { <<"join">>, <<"LEFT", "OUTER", "JOIN">>,
    <<"CROSS", "JOIN">>, <<"cross", "join">> }

IsCross(spelling) == UpperWord(spelling[1]) = "CROSS"

\* The filters: none, and three correlated subqueries.
Filters ==
  [ none |-> <<>>,
    exists_lower |->
      <<"where", "exists", "(", "select", "1", "from", "th", "h",
        "where", "h.i", "=", "a.i", ")">>,
    in_upper |->
      <<"WHERE", "a.x", "IN", "(", "SELECT", "h.x", "FROM", "th", "h",
        "WHERE", "h.i", "=", "a.i", ")">>,
    equals_upper |->
      <<"WHERE", "a.x", "=", "(", "SELECT", "MAX", "(", "h.x", ")",
        "FROM", "th", "h", "WHERE", "h.i", "=", "a.i", ")">> ]

JoinedTables == <<"tb", "tc", "td", "te", "tf", "tg", "ti">>
JoinedAliases == <<"b", "c", "d", "e", "f", "g", "i">>

\* The join clauses of a query: a cross join has no ON condition.
RECURSIVE join_clauses(_, _)
join_clauses(joins, k) ==
  IF k > Len(joins) THEN <<>>
  ELSE joins[k] \o <<JoinedTables[k], JoinedAliases[k]>>
       \o (IF IsCross(joins[k]) THEN <<>>
           ELSE <<"ON", "a.i", "=", JoinedAliases[k] \o ".i">>)
       \o join_clauses(joins, k + 1)

sql_text(joins, filter) ==
  <<"SELECT", "a.i", "FROM", "ta", "a">> \o join_clauses(joins, 1)
  \o Filters[filter]

InitSql ==
  /\ sq \in { [pc |-> "written", joins |-> js, filter |-> f,
               sql |-> sql_text(js, f), out |-> <<>>] :
              js \in UNION { [1..n -> JoinSpellings] : n \in 0..MaxJoins },
              f \in DOMAIN Filters }
  /\ rs = Idle /\ mg = Idle /\ repo = Idle /\ db = Idle /\ g = Idle /\ pl = Idle /\ pt = Idle
  /\ fc = Idle /\ cx = Idle

AnalyzeQuery ==
  /\ sq.pc = "written"
  /\ sq' = [sq EXCEPT !.pc = "analyzed", !.out = analyze_query(sq.sql)]
  /\ UNCHANGED <<rs, mg, repo, db, g, pl, pt, fc, cx>>

NextSql == AnalyzeQuery

SpecSql == InitSql /\ [][NextSql]_vars

(***************************************************************************)
(* Properties of analyze_query                                             *)
(***************************************************************************)

\* C9: a query with six join clauses, one of them a cross join, and a
\* correlated subquery in its filter is classified complex or very_complex
\* and flagged many_joins and cross_join, whatever the letter case of its
\* keywords.
C9_SixJoinsBand ==
  ( /\ sq.pc = "analyzed"
    /\ Len(sq.joins) = 6
    /\ Cardinality({ k \in 1..Len(sq.joins) : IsCross(sq.joins[k]) }) = 1
    /\ sq.filter # "none" )
  => /\ sq.out.complexity_level \in {"complex", "very_complex"}
     /\ {"many_joins", "cross_join"} \subseteq Range(sq.out.risk_flags)

(***************************************************************************)
(* metrics/complexity.py: classify_level, score_item and score_repository  *)
(*                                                                         *)
(* A dict is a function from its keys; d.get(k) of a missing key is None.  *)
(* The reasons of an item are kept as the list of their kinds, without the *)
(* numbers formatted into them.                                            *)
(***************************************************************************)

\* d.get(k)
Get(d, k) == IF k \in DOMAIN d THEN d[k] ELSE None

\* "if d.get(k):" for a key that holds a bool
IsSet(d, k) == k \in DOMAIN d /\ d[k] = TRUE

\* d.get(k, []) or []
ListAt(d, k) == IF k \in DOMAIN d THEN d[k] ELSE <<>>

\* int(pts.get(key, default))
points(pts, key, default) == IF key \in DOMAIN pts THEN pts[key] ELSE default

classify_level_strict(score, thresholds) ==
  IF score < points(thresholds, "low_max", 39) THEN "low"
  ELSE IF score < points(thresholds, "medium_max", 69) THEN "medium"
  ELSE "high"

classify_level(score, thresholds) ==
  IF score <= points(thresholds, "low_max", 39) THEN "low"
  ELSE IF score <= points(thresholds, "medium_max", 69) THEN "medium"
  ELSE "high"

\* sum(dims.values())
RECURSIVE sum_values(_, _)
sum_values(dims, keys) ==
  IF keys = {} THEN 0
  ELSE dims[CHOOSE k \in keys : TRUE]
       + sum_values(dims, keys \ {CHOOSE k \in keys : TRUE})

\* asdict(score_item(...))
score_item(item_id, dims, thresholds, reasons, flags) ==
  [item_id |-> item_id,
   level |-> classify_level(sum_values(dims, DOMAIN dims), thresholds),
   total_score |-> sum_values(dims, DOMAIN dims),
   dimension_scores |-> dims,
   top_reasons |-> SubSeq(reasons, 1, Min(7, Len(reasons))),
   risk_flags |-> flags]

ScoredLanguages ==
  {"python", "scala", "java", "pig", "hql", "sql", "shell", "notebook_jupyter",
   "notebook_zeppelin", "impala"}

languages_of(files_index) ==
  { files_index[i].detected_type : i \in 1..Len(files_index) } \cap ScoredLanguages

\* The flags read off the entries of files_index.
any_flag(files_index, key) ==
  \E i \in 1..Len(files_index) : IsSet(files_index[i], key)

\* Counting over a list.
RECURSIVE SumSeq(_)
SumSeq(numbers) ==
  IF numbers = <<>> THEN 0 ELSE Head(numbers) + SumSeq(Tail(numbers))

count_sum(list, F(_)) == SumSeq([k \in 1..Len(list) |-> F(list[k])])

num_actions(wf) == Len(ListAt(wf, "actions"))

num_control_flow(wf) ==
  (IF IsSet(wf, "has_fork_join") THEN 1 ELSE 0)
  + (IF IsSet(wf, "has_decision") THEN 1 ELSE 0)

num_subworkflows(wf) ==
  Len(SelectSeq(ListAt(wf, "actions"),
                LAMBDA a : Truthy(Get(a, "subworkflow_app_path"))))

\* "minute" in freq.lower(), and freq.strip() in ("5", "10", "15", "30"), on
\* the frequencies of the model.
ContainsMinute(freq) == freq = "${coord:minutes(5)}"

is_high_freq(c) ==
  \/ ContainsMinute(OrElse(Get(c, "frequency"), ""))
  \/ OrElse(Get(c, "frequency"), "") \in {"5", "10", "15", "30"}

only_if(n, value) == IF n # 0 THEN value ELSE 0

\* The five dimension scores of the repository item.
orchestration_score(wfs, pts) ==
  only_if(count_sum(wfs, num_actions),
          count_sum(wfs, num_actions) * points(pts, "oozie_action", 2))
  + only_if(count_sum(wfs, num_control_flow),
            count_sum(wfs, num_control_flow) * points(pts, "oozie_control_flow", 8))
  + only_if(count_sum(wfs, num_subworkflows),
            count_sum(wfs, num_subworkflows) * points(pts, "oozie_subworkflow", 6))

connections_count(findings) == Len(ListAt(findings, "connections"))

jdbc_count(findings) ==
  Len(ListAt(findings, "jdbc")) + Len(ListAt(findings, "jdbc_patterns"))

jdbc_count_of_scan(findings) == Len(ListAt(findings, "jdbc_strings"))

urls_count(findings) ==
  Len(ListAt(findings, "urls")) + Len(ListAt(findings, "url_patterns"))

secrets_count(findings) == Len(ListAt(findings, "secrets"))

technology_score(files_index, findings, pts) ==
  (IF Cardinality(languages_of(files_index)) >= 2
     THEN points(pts, "multi_language_bonus", 10) ELSE 0)
  + (IF connections_count(findings) # 0 \/ jdbc_count(findings) # 0
       THEN points(pts, "external_system_bonus", 5) ELSE 0)

cross_db_files(db_context) ==
  Cardinality({ d \in DOMAIN db_context.files_by_database :
                  Len(db_context.files_by_database[d]) > 1 })

\* "if database_context:" is false of None and of the empty dict.
has_context(db_context) == DOMAIN db_context # {}

\* The database factors.
database_score(db_context, pts) ==
  IF ~has_context(db_context) THEN 0
  ELSE (IF db_context.summary.total_databases >= 5
          THEN points(pts, "multi_database_bonus", 10) ELSE 0)
       + (IF \/ db_context.summary.total_source_table_refs > 50
             \/ db_context.summary.total_target_table_refs > 20
            THEN points(pts, "high_table_usage_bonus", 8) ELSE 0)
       + (IF cross_db_files(db_context) > 0
            THEN Min(10, cross_db_files(db_context)) ELSE 0)

\* sql_complexity_summary is never passed, so its factors add nothing.
data_score(files_index, lineage, db_context, pts) ==
  (IF lineage # <<>> THEN Min(25, Len(lineage)) ELSE 0)
  + (IF any_flag(files_index, "has_dynamic_sql")
       THEN points(pts, "dynamic_sql_bonus", 10) ELSE 0)
  + database_score(db_context, pts)

operational_score(files_index, coords, pts) ==
  (IF any_flag(files_index, "has_streaming")
     THEN points(pts, "streaming_bonus", 15) ELSE 0)
  + only_if(Len(SelectSeq(coords, is_high_freq)),
            Len(SelectSeq(coords, is_high_freq))
              * points(pts, "schedule_high_freq_bonus", 8))

security_score(findings, pts) ==
  (IF secrets_count(findings) # 0 THEN points(pts, "secrets_bonus", 15) ELSE 0)
  + (IF urls_count(findings) # 0 THEN Min(10, urls_count(findings)) ELSE 0)

repo_dims(files_index, wfs, coords, findings, lineage, db_context, pts) ==
  [orchestration |-> orchestration_score(wfs, pts),
   technology |-> technology_score(files_index, findings, pts),
   data |-> data_score(files_index, lineage, db_context, pts),
   operational |-> operational_score(files_index, coords, pts),
   security |-> security_score(findings, pts)]

repo_flags(files_index, findings, db_context) ==
  (IF any_flag(files_index, "has_dynamic_sql") THEN <<"dynamic_sql">> ELSE <<>>)
  \o (IF has_context(db_context)
        THEN (IF db_context.summary.total_databases >= 5
                THEN <<"multi_database">> ELSE <<>>)
             \o (IF cross_db_files(db_context) > 0
                   THEN <<"cross_database">> ELSE <<>>)
        ELSE <<>>)
  \o (IF any_flag(files_index, "has_streaming") THEN <<"streaming">> ELSE <<>>)
  \o (IF secrets_count(findings) # 0 THEN <<"secrets">> ELSE <<>>)

repo_reasons(files_index, wfs, coords, findings, lineage, db_context) ==
  (IF count_sum(wfs, num_actions) # 0 THEN <<"actions">> ELSE <<>>)
  \o (IF count_sum(wfs, num_control_flow) # 0 THEN <<"control_flow">> ELSE <<>>)
  \o (IF count_sum(wfs, num_subworkflows) # 0 THEN <<"subworkflows">> ELSE <<>>)
  \o (IF Cardinality(languages_of(files_index)) >= 2 THEN <<"languages">> ELSE <<>>)
  \o (IF connections_count(findings) # 0 \/ jdbc_count(findings) # 0
        THEN <<"external">> ELSE <<>>)
  \o (IF lineage # <<>> THEN <<"lineage">> ELSE <<>>)
  \o (IF any_flag(files_index, "has_dynamic_sql") THEN <<"dynamic_sql">> ELSE <<>>)
  \o (IF has_context(db_context)
        THEN (IF db_context.summary.total_databases >= 5
                THEN <<"databases">> ELSE <<>>)
             \o (IF \/ db_context.summary.total_source_table_refs > 50
                    \/ db_context.summary.total_target_table_refs > 20
                   THEN <<"table_usage">> ELSE <<>>)
             \o (IF cross_db_files(db_context) > 0
                   THEN <<"cross_database">> ELSE <<>>)
        ELSE <<>>)
  \o (IF any_flag(files_index, "has_streaming") THEN <<"streaming">> ELSE <<>>)
  \o (IF Len(SelectSeq(coords, is_high_freq)) # 0 THEN <<"high_freq">> ELSE <<>>)
  \o (IF secrets_count(findings) # 0 THEN <<"secrets">> ELSE <<>>)
  \o (IF urls_count(findings) # 0 THEN <<"urls">> ELSE <<>>)

ZeroDims ==
  [orchestration |-> 0, technology |-> 0, data |-> 0, operational |-> 0,
   security |-> 0]

\* The item of one workflow.
workflow_item(wf, pts, thresholds) ==
  score_item(
    "workflow:" \o OrElse(Get(wf, "name"), OrElse(Get(wf, "source_file"), "workflow")),
    [ZeroDims EXCEPT !.orchestration =
       num_actions(wf) * points(pts, "oozie_action", 2)
       + (IF IsSet(wf, "has_fork_join") \/ IsSet(wf, "has_decision")
            THEN points(pts, "oozie_control_flow", 8) ELSE 0)
       + only_if(num_subworkflows(wf),
                 num_subworkflows(wf) * points(pts, "oozie_subworkflow", 6))],
    thresholds,
    (IF IsSet(wf, "has_fork_join") \/ IsSet(wf, "has_decision")
       THEN <<"control_flow">> ELSE <<>>)
    \o (IF num_subworkflows(wf) # 0 THEN <<"subworkflows">> ELSE <<>>)
    \o <<"actions">>,
    <<>>)

\* The item of one coordinator.
coordinator_item(c, pts, thresholds) ==
  score_item(
    "coordinator:" \o OrElse(Get(c, "name"), OrElse(Get(c, "source_file"), "coordinator")),
    [ZeroDims EXCEPT
       !.operational =
          IF ContainsMinute(OrElse(Get(c, "frequency"), ""))
            THEN points(pts, "schedule_high_freq_bonus", 8) ELSE 0,
       !.orchestration = IF Truthy(Get(c, "workflow_app_path")) THEN 4 ELSE 0],
    thresholds,
    (IF Truthy(Get(c, "frequency"))
       THEN <<"frequency">>
            \o (IF ContainsMinute(Get(c, "frequency")) THEN <<"high_freq">> ELSE <<>>)
       ELSE <<>>)
    \o (IF Truthy(Get(c, "workflow_app_path")) THEN <<"triggers">> ELSE <<>>),
    <<>>)

workflow_items_skipped(wfs, pts, thresholds) == <<>>

workflow_items(wfs, pts, thresholds) ==
  [k \in 1..Len(wfs) |-> workflow_item(wfs[k], pts, thresholds)]

coordinator_items(coords, pts, thresholds) ==
  [k \in 1..Len(coords) |-> coordinator_item(coords[k], pts, thresholds)]

repo_item(files_index, wfs, coords, findings, lineage, db_context, rubric) ==
  score_item("repo_overview",
             repo_dims(files_index, wfs, coords, findings, lineage,
                       db_context, ListAt(rubric, "points")),
             ListAt(rubric, "thresholds"),
             repo_reasons(files_index, wfs, coords, findings, lineage,
                          db_context),
             repo_flags(files_index, findings, db_context))

score_repository(files_index, workflows_blob, findings, lineage, rubric, db_context) ==
  [repo_level |->
     repo_item(files_index, ListAt(workflows_blob, "workflows"),
               ListAt(workflows_blob, "coordinators"), findings, lineage,
               db_context, rubric).level,
   repo_score |->
     repo_item(files_index, ListAt(workflows_blob, "workflows"),
               ListAt(workflows_blob, "coordinators"), findings, lineage,
               db_context, rubric).total_score,
   items |->
     <<repo_item(files_index, ListAt(workflows_blob, "workflows"),
                 ListAt(workflows_blob, "coordinators"), findings, lineage,
                 db_context, rubric)>>
     \o workflow_items(ListAt(workflows_blob, "workflows"),
                       ListAt(rubric, "points"), ListAt(rubric, "thresholds"))
     \o coordinator_items(ListAt(workflows_blob, "coordinators"),
                          ListAt(rubric, "points"), ListAt(rubric, "thresholds"))]

(***************************************************************************)
(* score_item and score_repository on drawn arguments.  cx holds the       *)
(* arguments of one call and, once it returned, out.                       *)
(***************************************************************************)

Dimensions == {"orchestration", "technology", "data", "operational", "security"}

\* Scores whose sums reach both default thresholds from both sides:
\* 39 = 13 + 13 + 13, 40 = 13 + 13 + 14, 69 = 4 * 14 + 13, 70 = 5 * 14.
DimScores == {0, 13, 14}

NoKeys == [k \in {} |-> 0]

ThresholdTables ==
  { NoKeys, [low_max |-> 39, medium_max |-> 69], [low_max |-> 13],
    [medium_max |-> 20], [low_max |-> 50, medium_max |-> 30] }

\* The most workflows, the most coordinators and the most bundles of a call.
MaxDocuments == 1

ScoredWorkflows ==
  { [source_file |-> "workflow.xml", parse_status |-> "ok", name |-> "wf",
     actions |-> <<[name |-> "a", type |-> "java", main |-> "kafka.Main",
                    subworkflow_app_path |-> None]>>,
     has_fork_join |-> FALSE, has_decision |-> FALSE],
    [source_file |-> "workflow.xml", parse_status |-> "ok", name |-> None,
     actions |-> <<[name |-> "a", type |-> "sub-workflow", main |-> None,
                    subworkflow_app_path |-> "/apps/sub"],
                   [name |-> "b", type |-> "shell", main |-> "run.sh",
                    subworkflow_app_path |-> None]>>,
     has_fork_join |-> TRUE, has_decision |-> TRUE],
    [source_file |-> "workflow.xml",
     parse_status |-> "xml_parse_error:" \o "syntax error",
     name |-> None, actions |-> <<>>] }

ScoredCoordinators ==
  { [source_file |-> "coordinator.xml", parse_status |-> "ok", name |-> "coord",
     frequency |-> "${coord:minutes(5)}", workflow_app_path |-> "/apps/wf"],
    [source_file |-> "coordinator.xml", parse_status |-> "ok", name |-> None,
     frequency |-> "5", workflow_app_path |-> None],
    [source_file |-> "coordinator.xml",
     parse_status |-> "read_error:" \o "denied", name |-> None] }

ScoredBundles ==
  { [source_file |-> "bundle.xml", parse_status |-> "ok", name |-> "bundle"],
    [source_file |-> "bundle.xml",
     parse_status |-> "xml_parse_error:" \o "syntax error", name |-> None] }

ListsOf(S, n) == UNION { [1..k -> S] : k \in 0..n }

ScoredBlobs ==
  { [workflows |-> w, coordinators |-> c, bundles |-> b] :
      w \in ListsOf(ScoredWorkflows, MaxDocuments),
      c \in ListsOf(ScoredCoordinators, MaxDocuments),
      b \in ListsOf(ScoredBundles, MaxDocuments) }

IndexEntry(path, detected_type) ==
  [path |-> path, detected_type |-> detected_type, parse_status |-> "ok",
   size_bytes |-> 5, lines_count |-> 1]

\* Entries as compute_counts leaves them, and entries that carry the two
\* flags score_repository looks for.
ScoredIndexes ==
  { <<>>, <<IndexEntry("a.sql", "sql")>>,
    <<IndexEntry("a.sql", "sql"), IndexEntry("a.py", "python")>>,
    << [path |-> "a.py", detected_type |-> "python", has_streaming |-> TRUE],
       [path |-> "a.sql", detected_type |-> "sql", has_dynamic_sql |-> TRUE] >> }

Hit(value, file) ==
  [value |-> value, file |-> file, line |-> 1, confidence |-> "high"]

\* What scan_repo_patterns returns without and with hits, and a dict with
\* the keys score_repository reads.
ScoredFindings ==
  { [jdbc_strings |-> <<>>, urls |-> <<>>, kafka_bootstrap_hints |-> <<>>,
     storage_paths |-> <<>>, jdbc_count |-> 0, url_count |-> 0,
     kafka_bootstrap_count |-> 0, storage_path_count |-> 0],
    [jdbc_strings |-> <<Hit("jdbc:hive2://h", "job.properties")>>,
     urls |-> <<Hit("http://h", "job.properties")>>,
     kafka_bootstrap_hints |-> <<>>, storage_paths |-> <<>>,
     jdbc_count |-> 1, url_count |-> 1, kafka_bootstrap_count |-> 0,
     storage_path_count |-> 0],
    [jdbc |-> <<Hit("jdbc:hive2://h", "job.properties")>>,
     secrets |-> <<Hit("password", "job.properties")>>] }

ScoredLineage ==
  { <<>>, <<[sources |-> <<"db.s">>, targets |-> <<"db.t">>,
             evidence_file |-> "a.sql"]>> }

ScoredRubrics ==
  { NoKeys,
    [points |-> [oozie_action |-> 20, streaming_bonus |-> 40],
     thresholds |-> [low_max |-> 1, medium_max |-> 43]] }

ScoredDatabaseContexts ==
  { NoKeys,
    [summary |-> [total_databases |-> 1, total_source_table_refs |-> 1,
                  total_target_table_refs |-> 1],
     files_by_database |-> [d \in {"db"} |-> <<"a.sql">>]],
    [summary |-> [total_databases |-> 5, total_source_table_refs |-> 51,
                  total_target_table_refs |-> 2],
     files_by_database |-> [d \in {"db"} |-> <<"a.sql", "b.sql">>]] }

InitScore ==
  /\ cx \in { [pc |-> "item", dims |-> d, thresholds |-> t, out |-> NoKeys] :
               d \in [Dimensions -> DimScores], t \in ThresholdTables }
            \cup
            { [pc |-> "repository", files_index |-> f, workflows_blob |-> w,
               findings |-> fd, lineage |-> l, rubric |-> r,
               database_context |-> dc, out |-> NoKeys] :
               f \in ScoredIndexes, w \in ScoredBlobs, fd \in ScoredFindings,
               l \in ScoredLineage, r \in ScoredRubrics,
               dc \in ScoredDatabaseContexts }
  /\ rs = Idle /\ mg = Idle /\ repo = Idle /\ db = Idle /\ sq = Idle
  /\ g = Idle /\ pl = Idle /\ pt = Idle /\ fc = Idle

ScoreItem ==
  /\ cx.pc = "item"
  /\ cx' = [cx EXCEPT !.pc = "item_scored",
              !.out = score_item("item", cx.dims, cx.thresholds, <<>>, <<>>)]
  /\ UNCHANGED <<rs, mg, repo, db, sq, g, pl, pt, fc>>

ScoreRepository ==
  /\ cx.pc = "repository"
  /\ cx' = [cx EXCEPT !.pc = "repository_scored",
              !.out = score_repository(cx.files_index, cx.workflows_blob,
                                       cx.findings, cx.lineage, cx.rubric,
                                       cx.database_context)]
  /\ UNCHANGED <<rs, mg, repo, db, sq, g, pl, pt, fc>>

NextScore == ScoreItem \/ ScoreRepository

SpecScore == InitScore /\ [][NextScore]_vars

(***************************************************************************)
(* Properties of the scores                                                *)
(***************************************************************************)

\* The items of the call and the thresholds they were built with.
BuiltItems ==
  IF cx.pc = "item_scored" THEN <<cx.out>>
  ELSE IF cx.pc = "repository_scored" THEN cx.out.items
  ELSE <<>>

UsedThresholds ==
  IF cx.pc = "item_scored" THEN cx.thresholds ELSE ListAt(cx.rubric, "thresholds")

LowMax == IF "low_max" \in DOMAIN UsedThresholds THEN UsedThresholds.low_max ELSE 39

MediumMax ==
  IF "medium_max" \in DOMAIN UsedThresholds THEN UsedThresholds.medium_max ELSE 69

LevelRank(level) == CASE level = "low" -> 1 [] level = "medium" -> 2 [] level = "high" -> 3

\* C24: the total of every item is the sum of its five dimension scores;
\* its level is low iff the total is at most low_max, medium iff it is above
\* low_max and at most medium_max, high otherwise, the thresholds being those
\* of the rubric or 39 and 69; no smaller total has a higher level.
C24_TotalAndLevel ==
  \A k \in 1..Len(BuiltItems) :
    LET item == BuiltItems[k] IN
    /\ DOMAIN item.dimension_scores = Dimensions
    /\ item.total_score
         = item.dimension_scores.orchestration + item.dimension_scores.technology
           + item.dimension_scores.data + item.dimension_scores.operational
           + item.dimension_scores.security
    /\ (item.level = "low") <=> (item.total_score <= LowMax)
    /\ (item.level = "medium")
         <=> (LowMax < item.total_score /\ item.total_score <= MediumMax)
    /\ (item.level = "high")
         <=> ~(item.total_score <= LowMax)
             /\ ~(LowMax < item.total_score /\ item.total_score <= MediumMax)
    /\ \A smaller \in 0..item.total_score :
         LevelRank(classify_level(smaller, UsedThresholds)) <= LevelRank(item.level)

C24_Witness ==
  /\ cx.pc = "item_scored"
  /\ cx.thresholds = NoKeys
  /\ cx.dims.orchestration = 13 /\ cx.dims.data = 13 /\ cx.dims.security = 13
  /\ cx.out.total_score = 39
  /\ cx.out.level = "low"

RepositoryScored == cx.pc = "repository_scored"

OrchestrationDocuments ==
  cx.workflows_blob.workflows \o cx.workflows_blob.coordinators
  \o cx.workflows_blob.bundles

\* C25: score_repository returns exactly one repository-level item and,
\* besides it, exactly one item per orchestration document of its input:
\* one per workflow, one per coordinator and one per bundle.
C25_OneItemPerDocument ==
  RepositoryScored =>
    /\ Cardinality({ k \in 1..Len(cx.out.items) :
                       cx.out.items[k].item_id = "repo_overview" }) = 1
    /\ Len(cx.out.items) = 1 + Len(OrchestrationDocuments)

(***************************************************************************)
(* analyze_repository: the stages of one pipeline run                      *)
(*                                                                         *)
(* A file on disk is a record [path, size_bytes, readable, wellformed]:    *)
(* read_text raises on a file that is not readable, and the XML parser     *)
(* raises on a document that is not wellformed.  The content of a file is  *)
(* abstracted to what a stage can take from it: every stage that obtains   *)
(* the text of a file yields one result tagged with the path of the file.  *)
(***************************************************************************)

MB == 1024 * 1024

\* The file names of the model.
FileNames ==
  {"workflow.xml", "Workflow.XML", "coordinator.xml", "bundle.xml", "pom.xml",
   "build.gradle", "build.sbt", "requirements.txt", "job.properties",
   "coordinator.properties", "x-coord.xml", "a.sql", "a.ddl", "a.hql",
   "a.xml", "a.txt", "a.bin"}

\* p.name.lower()
LowerName(path) == IF path = "Workflow.XML" THEN "workflow.xml" ELSE path

\* p.suffix.lower()
PathSuffix ==
  [p \in FileNames |->
     CASE p \in {"job.properties", "coordinator.properties"} -> ".properties"
       [] p = "a.sql" -> ".sql"
       [] p = "a.ddl" -> ".ddl"
       [] p = "a.hql" -> ".hql"
       [] p = "a.txt" -> ".txt"
       [] p = "requirements.txt" -> ".txt"
       [] p = "a.bin" -> ".bin"
       [] p = "build.gradle" -> ".gradle"
       [] p = "build.sbt" -> ".sbt"
       [] OTHER -> ".xml"]

\* name.endswith("-coord.xml") and "coordinator" in name
EndsWithCoordXml(name) == name = "x-coord.xml"
ContainsCoordinator(name) == name \in {"coordinator.xml", "coordinator.properties"}

\* _detect_type_simple, test by test in the order of the code.
detect_type_simple(path) ==
  IF LowerName(path) = "workflow.xml" THEN "oozie_workflow_xml"
  ELSE IF \/ LowerName(path) = "coordinator.xml"
          \/ EndsWithCoordXml(LowerName(path))
          \/ ContainsCoordinator(LowerName(path))
    THEN (IF PathSuffix[path] = ".xml" THEN "oozie_coordinator_xml"
          ELSE "xml_generic")
  ELSE IF LowerName(path) = "bundle.xml" THEN "oozie_bundle_xml"
  ELSE IF PathSuffix[path] \in {".properties", ".props"} THEN "properties"
  ELSE IF PathSuffix[path] \in {".yml", ".yaml"} THEN "yaml"
  ELSE IF PathSuffix[path] = ".json" THEN "json"
  ELSE IF PathSuffix[path] \in {".ini", ".cfg", ".conf"} THEN "ini_conf"
  ELSE IF PathSuffix[path] \in {".sql", ".ddl", ".dml"} THEN "sql"
  ELSE IF PathSuffix[path] \in {".hql", ".q"} THEN "hql"
  ELSE IF PathSuffix[path] = ".pig" THEN "pig"
  ELSE IF PathSuffix[path] \in {".sh", ".bash", ".ksh"} THEN "shell"
  ELSE IF PathSuffix[path] = ".py" THEN "python"
  ELSE IF PathSuffix[path] = ".scala" THEN "scala"
  ELSE IF PathSuffix[path] = ".java" THEN "java"
  ELSE IF PathSuffix[path] = ".ipynb" THEN "notebook_jupyter"
  ELSE IF PathSuffix[path] = ".xml" THEN "xml_generic"
  ELSE IF LowerName(path) = "pom.xml" THEN "build_maven"
  ELSE IF LowerName(path) \in {"build.gradle", "settings.gradle"} THEN "build_gradle"
  ELSE IF LowerName(path) = "build.sbt" THEN "build_sbt"
  ELSE IF LowerName(path) = "requirements.txt" THEN "build_python_deps"
  ELSE "other"

\* scan_repository: max_file_mb reaches only ScanConfig.max_file_bytes, which
\* iter_files never reads; every record starts with parse_status ok.
scan_repository(disk, max_file_mb) ==
  [i \in 1..Len(disk) |->
     [path |-> disk[i].path,
      detected_type |-> detect_type_simple(disk[i].path),
      parse_status |-> "ok",
      size_bytes |-> disk[i].size_bytes,
      lines_count |-> None]]

FileAt(disk, path) == Only({ disk[i] : i \in { j \in 1..Len(disk) : disk[j].path = path } })

\* Path.read_text: TRUE when the call returns the text, FALSE when it raises.
read_text(disk, path) == FileAt(disk, path).readable

ReadErrorMessage == "denied"
XmlErrorMessage == "syntax error"

\* The size test of compute_counts: the cap is written in the code.
too_big(size_bytes) == size_bytes > 10 * 1024 * 1024

count_entry(disk, f) ==
  IF too_big(f.size_bytes)
    THEN [f EXCEPT !.lines_count = 0, !.parse_status = "skipped_large"]
  ELSE IF read_text(disk, f.path)
    THEN [f EXCEPT !.lines_count = 1]
  ELSE [f EXCEPT !.lines_count = 0, !.parse_status = "read_error"]

compute_counts(disk, files_index) ==
  [i \in 1..Len(files_index) |-> count_entry(disk, files_index[i])]

parse_status_always_ok(disk, path) == "ok"

\* The outcome of the read and of ET.fromstring inside parse_workflow,
\* parse_coordinator and parse_bundle.
parse_status_of(disk, path) ==
  IF ~read_text(disk, path) THEN "read_error:" \o ReadErrorMessage
  ELSE IF ~FileAt(disk, path).wellformed
    THEN "xml_parse_error:" \o XmlErrorMessage
  ELSE "ok"

\* The modelled workflow document holds one shell action whose script is
\* kafka-ingest.sh; a failed record carries no field of the document.
parse_workflow_xml(disk, path) ==
  IF parse_status_of(disk, path) = "ok"
    THEN [source_file |-> path, parse_status |-> "ok", name |-> "wf",
          actions |-> <<[name |-> "a", type |-> "shell",
                         main |-> "kafka-ingest.sh",
                         subworkflow_app_path |-> None]>>,
          has_fork_join |-> FALSE, has_decision |-> FALSE]
  ELSE [source_file |-> path, parse_status |-> parse_status_of(disk, path),
        name |-> None, actions |-> <<>>]

\* The modelled coordinator document runs every five minutes.
parse_coordinator_xml(disk, path) ==
  IF parse_status_of(disk, path) = "ok"
    THEN [source_file |-> path, parse_status |-> "ok", name |-> "coord",
          frequency |-> "${coord:minutes(5)}",
          workflow_app_path |-> "${p}/wf"]
  ELSE [source_file |-> path, parse_status |-> parse_status_of(disk, path),
        name |-> None]

parse_bundle_xml(disk, path) ==
  [source_file |-> path, parse_status |-> parse_status_of(disk, path),
   name |-> IF parse_status_of(disk, path) = "ok" THEN "bundle" ELSE None]

OfType(files_index, ftype) ==
  SelectSeq(files_index, LAMBDA f : f.detected_type = ftype)

\* Step 3 of analyze_repository: one parser call per file of each type.
parse_documents(disk, files_index) ==
  [workflows |->
     [i \in 1..Len(OfType(files_index, "oozie_workflow_xml")) |->
        parse_workflow_xml(disk, OfType(files_index, "oozie_workflow_xml")[i].path)],
   coordinators |->
     [i \in 1..Len(OfType(files_index, "oozie_coordinator_xml")) |->
        parse_coordinator_xml(disk, OfType(files_index, "oozie_coordinator_xml")[i].path)],
   bundles |->
     [i \in 1..Len(OfType(files_index, "oozie_bundle_xml")) |->
        parse_bundle_xml(disk, OfType(files_index, "oozie_bundle_xml")[i].path)]]

\* The files whose text a per-file loop obtains: the type filter of the
\* loop, then read_text inside try/except-continue.  No loop looks at
\* parse_status.
texts_of(disk, files_index, types) ==
  SelectSeq(files_index,
            LAMBDA f : f.detected_type \in types /\ read_text(disk, f.path))

PathsOf(files) == [i \in 1..Len(files) |-> files[i].path]

AllTypes ==
  { detect_type_simple(p) : p \in DOMAIN PathSuffix }

LineageTypes ==
  {"sql", "hql", "impala_sql", "oozie_workflow_xml", "oozie_coordinator_xml",
   "notebook_zeppelin", "notebook_jupyter", "python", "scala", "java",
   "shell", "xml_generic"}

DatabaseTypes ==
  {"sql", "hql", "impala_sql", "oozie_workflow_xml", "oozie_coordinator_xml",
   "notebook_zeppelin", "notebook_jupyter"}

DynamicSqlTypes ==
  {"sql", "hql", "impala_sql", "python", "scala", "java", "shell",
   "oozie_workflow_xml", "oozie_coordinator_xml", "xml_generic",
   "properties", "ini_conf", "notebook_zeppelin", "notebook_jupyter"}

\* The text of each modelled file, word by word.  Two words are one blank
\* apart; WideGap is a run of five more blanks between its neighbours.
WideGap == "     "

FileWords(path) ==
  CASE path = "a.sql" ->
         <<"insert", "into", "db.t", "select", "x", "From", "db.s", "join",
           "db.s", "create", "table", "db.c", "create", WideGap, "table",
           "db.u", "format(x)">>
    [] path = "job.properties" -> <<"jdbc:hive2://h", "http://h">>
    [] OTHER -> <<"x">>

\* The connection patterns given to the run: one JDBC pattern jdbc:[^\s]+
\* and one URL pattern https?://[^\s]+, matched against a word.
rx_search(key, word) ==
  CASE key = "jdbc_strings" -> word = "jdbc:hive2://h"
    [] key = "urls" -> word = "http://h"
    [] OTHER -> FALSE

\* _scan_lines for the patterns of one key: the words of a file other than
\* a.sql stand one on a line.
scan_lines_of(rel, key) ==
  Only({ [j \in 1..Len(at) |->
            [value |-> FileWords(rel)[at[j]], file |-> rel,
             line |-> IF rel = "a.sql" THEN 1 ELSE at[j],
             confidence |-> "high"]] :
         at \in { SelectSeq([k \in 1..Len(FileWords(rel)) |-> k],
                            LAMBDA k : rx_search(key, FileWords(rel)[k])) } })

RECURSIVE scan_files(_, _, _)
scan_files(files, i, key) ==
  IF i > Len(files) THEN <<>>
  ELSE scan_lines_of(files[i].path, key) \o scan_files(files, i + 1, key)

\* scan_repo_patterns: every file of the index that can be read is scanned.
scan_repo_patterns(disk, files_index) ==
  Only({ [jdbc_strings |-> jdbc, urls |-> urls, kafka_bootstrap_hints |-> <<>>,
          storage_paths |-> <<>>, jdbc_count |-> Len(jdbc),
          url_count |-> Len(urls), kafka_bootstrap_count |-> 0,
          storage_path_count |-> 0] :
         jdbc \in { scan_files(texts_of(disk, files_index, AllTypes), 1,
                               "jdbc_strings") },
         urls \in { scan_files(texts_of(disk, files_index, AllTypes), 1,
                               "urls") } })

\* STREAMING_RE.search and DYNAMIC_SQL_RE.search on the texts of the model.
has_streaming(text) == text = "kafka-ingest.sh"

has_dynamic_sql(words) == \E k \in 1..Len(words) : words[k] = "format(x)"

\* No path of the model holds one of the streaming tokens.
has_streaming_token(path) == FALSE

\* wf_texts: the main of every action that has one (no modelled action has
\* a script, class or args string).
action_texts(workflows) ==
  UNION { { workflows[i].actions[k].main :
              k \in { n \in 1..Len(workflows[i].actions) :
                        workflows[i].actions[n].main # None } } :
          i \in 1..Len(workflows) }

has_streaming_repo(files_index, workflows_blob) ==
  \/ \E text \in action_texts(workflows_blob.workflows) : has_streaming(text)
  \/ \E i \in 1..Len(files_index) : has_streaming_token(files_index[i].path)

\* The files has_dynamic_sql_repo reads: it returns at the first file whose
\* text matches.
RECURSIVE dynamic_sql_reads(_, _)
dynamic_sql_reads(files, i) ==
  IF i > Len(files) THEN <<>>
  ELSE IF has_dynamic_sql(FileWords(files[i].path)) THEN <<files[i]>>
  ELSE <<files[i]>> \o dynamic_sql_reads(files, i + 1)

has_dynamic_sql_repo(disk, files_index) ==
  \E i \in 1..Len(texts_of(disk, files_index, DynamicSqlTypes)) :
    has_dynamic_sql(FileWords(texts_of(disk, files_index, DynamicSqlTypes)[i].path))

WordAt(words, i) == IF i \in 1..Len(words) THEN words[i] ELSE None

\* "\s+": the position of the next word that is no run of blanks.
RECURSIVE skip_blanks(_, _)
skip_blanks(words, i) ==
  IF WordAt(words, i) = WideGap THEN skip_blanks(words, i + 1) ELSE i

\* The (?i) flag.
SameWord(w, keyword) == UpperWord(w) = UpperWord(keyword)

\* The position of the name that each lineage pattern captures when it
\* matches at word i, 0 when it does not match there.  The name class
\* [\w\.\$\{\}]+ takes any word of the model.
SQL_FROM_RE(words, i) ==
  IF SameWord(WordAt(words, i), "from") /\ skip_blanks(words, i + 1) <= Len(words)
    THEN skip_blanks(words, i + 1) ELSE 0

SQL_JOIN_RE(words, i) ==
  IF SameWord(WordAt(words, i), "join") /\ skip_blanks(words, i + 1) <= Len(words)
    THEN skip_blanks(words, i + 1) ELSE 0

\* (?:table\s+)? gives the word "table" back when no name follows it.
optional_table(words, k) ==
  IF SameWord(WordAt(words, k), "table") /\ skip_blanks(words, k + 1) <= Len(words)
    THEN skip_blanks(words, k + 1) ELSE k

SQL_INSERT_RE(words, i) ==
  IF /\ SameWord(WordAt(words, i), "insert")
     /\ \/ SameWord(WordAt(words, skip_blanks(words, i + 1)), "into")
        \/ SameWord(WordAt(words, skip_blanks(words, i + 1)), "overwrite")
     /\ skip_blanks(words, skip_blanks(words, i + 1) + 1) <= Len(words)
    THEN optional_table(words, skip_blanks(words, skip_blanks(words, i + 1) + 1))
    ELSE 0

\* (?:if\s+not\s+exists\s+)?
optional_if_not_exists(words, k) ==
  IF /\ SameWord(WordAt(words, k), "if")
     /\ SameWord(WordAt(words, skip_blanks(words, k + 1)), "not")
     /\ SameWord(WordAt(words, skip_blanks(words, skip_blanks(words, k + 1) + 1)),
                 "exists")
     /\ skip_blanks(words,
           skip_blanks(words, skip_blanks(words, k + 1) + 1) + 1) <= Len(words)
    THEN skip_blanks(words, skip_blanks(words, skip_blanks(words, k + 1) + 1) + 1)
    ELSE k

\* "create\s     +table": the pattern is compiled without the verbose flag,
\* so the blanks written in it are literal and it takes six blanks or more
\* between the two keywords.
SQL_CREATE_RE(words, i) ==
  IF /\ SameWord(WordAt(words, i), "create")
     /\ WordAt(words, i + 1) = WideGap
     /\ SameWord(WordAt(words, skip_blanks(words, i + 1)), "table")
     /\ skip_blanks(words, skip_blanks(words, i + 1) + 1) <= Len(words)
    THEN optional_if_not_exists(words,
           skip_blanks(words, skip_blanks(words, i + 1) + 1))
    ELSE 0

SQL_MERGE_RE(words, i) ==
  IF /\ SameWord(WordAt(words, i), "merge")
     /\ SameWord(WordAt(words, skip_blanks(words, i + 1)), "into")
     /\ skip_blanks(words, skip_blanks(words, i + 1) + 1) <= Len(words)
    THEN skip_blanks(words, skip_blanks(words, i + 1) + 1)
    ELSE 0

lineage_match(r, words, i) ==
  CASE r = "SQL_FROM_RE" -> SQL_FROM_RE(words, i)
    [] r = "SQL_JOIN_RE" -> SQL_JOIN_RE(words, i)
    [] r = "SQL_INSERT_RE" -> SQL_INSERT_RE(words, i)
    [] r = "SQL_CREATE_RE" -> SQL_CREATE_RE(words, i)
    [] r = "SQL_MERGE_RE" -> SQL_MERGE_RE(words, i)

\* { m.group(1).strip() : m in r.finditer(text) }: the matches do not
\* overlap, the search goes on after the captured name.
RECURSIVE lineage_names(_, _, _)
lineage_names(r, words, i) ==
  IF i > Len(words) THEN {}
  ELSE IF lineage_match(r, words, i) # 0
    THEN {words[lineage_match(r, words, i)]}
         \cup lineage_names(r, words, lineage_match(r, words, i) + 1)
  ELSE lineage_names(r, words, i + 1)

\* The names of the model in code-point order, and sorted() of a set of them.
SortedWords ==
  <<"From", "create", "db.c", "db.s", "db.t", "db.u", "insert", "into", "join",
    "select", "table", "x">>

sorted_words(S) == SelectSeq(SortedWords, LAMBDA w : w \in S)

extract_sql_lineage(words) ==
  [sources |-> sorted_words(lineage_names("SQL_FROM_RE", words, 1)
                            \cup lineage_names("SQL_JOIN_RE", words, 1)),
   targets |-> sorted_words(lineage_names("SQL_INSERT_RE", words, 1)
                            \cup lineage_names("SQL_CREATE_RE", words, 1)
                            \cup lineage_names("SQL_MERGE_RE", words, 1))]

\* "for r in recs" on the dict that extract_sql_lineage returns: the items
\* of the iteration are the keys of the dict, which are strings.
iterate(recs) ==
  <<[type |-> "str", value |-> "sources"], [type |-> "str", value |-> "targets"]>>

\* isinstance(r, dict)
isinstance_dict(r) == r.type = "dict"

\* The records that the wrapper appends for one file.
lineage_of_file(rel) ==
  [k \in 1..Len(SelectSeq(iterate(extract_sql_lineage(FileWords(rel))),
                          isinstance_dict)) |->
     [sources |-> SelectSeq(iterate(extract_sql_lineage(FileWords(rel))),
                            isinstance_dict)[k].value.sources,
      targets |-> SelectSeq(iterate(extract_sql_lineage(FileWords(rel))),
                            isinstance_dict)[k].value.targets,
      evidence_file |-> rel]]

RECURSIVE lineage_of_files(_)
lineage_of_files(files) ==
  IF files = <<>> THEN <<>>
  ELSE lineage_of_file(Head(files).path) \o lineage_of_files(Tail(files))

extract_sql_lineage_repo(disk, files_index) ==
  lineage_of_files(texts_of(disk, files_index, LineageTypes))

\* by_file of extract_variables_repo.
extract_variables_repo(disk, files_index) ==
  PathsOf(texts_of(disk, files_index, AllTypes))

\* The file tags of the table references of extract_databases_from_repository.
extract_databases_from_repository(disk, files_index) ==
  PathsOf(texts_of(disk, files_index, DatabaseTypes))

\* The files that build_definitions_from_repo reads.
definition_files(disk, files_index) ==
  PathsOf(texts_of(disk, files_index, AllTypes))

ReadsOf(stage, files) == { <<stage, files[i].path>> : i \in 1..Len(files) }

Artifacts ==
  {"workflows.json", "findings.json", "lineage.json", "variables.json",
   "database_context.json", "dependency_graph.json", "complexity.json",
   "repo_summary.json", "files_index.json", "resolved.json",
   "partially_resolved.json", "unresolved.json", "findings_resolved.json",
   "workflows_resolved.json", "lineage_resolved.json", "report.html"}

MaxRepoFiles == 2

PipelinePaths ==
  {"a.sql", "workflow.xml", "coordinator.xml", "bundle.xml", "job.properties"}

PipelineSizes == {5 * MB, 10 * MB, 10 * MB + 1, 15 * MB}

PipelineCaps == {1, 10, 20}

\* A file that cannot be read has no content to be well formed or not, and
\* only the three orchestration documents go through the XML parser.
DiskFiles ==
  { [path |-> p, size_bytes |-> sz, readable |-> r, wellformed |-> w] :
      p \in PipelinePaths, sz \in PipelineSizes, r \in BOOLEAN, w \in BOOLEAN }

PipelineFiles ==
  { f \in DiskFiles :
      /\ ~f.readable => f.wellformed
      /\ ~f.wellformed => PathSuffix[f.path] = ".xml" }

Disks ==
  { d \in UNION { [1..n -> PipelineFiles] : n \in 0..MaxRepoFiles } :
      \A i, j \in 1..Len(d) : d[i].path = d[j].path => i = j }

InitPipeline ==
  /\ pl \in { [pc |-> "start", max_file_mb |-> cap, disk |-> d,
               files_index |-> <<>>, workflows |-> <<>>,
               coordinators |-> <<>>, bundles |-> <<>>, findings |-> NoKeys,
               lineage |-> <<>>, variables |-> <<>>,
               database_context |-> <<>>, complexity |-> NoKeys,
               repo_summary |-> NoKeys, rubric |-> NoKeys,
               definitions |-> <<>>,
               stages |-> <<>>, reads |-> {}, written |-> {}] :
              cap \in PipelineCaps, d \in Disks }
  /\ rs = Idle /\ mg = Idle /\ repo = Idle /\ db = Idle /\ sq = Idle
  /\ g = Idle /\ pt = Idle /\ fc = Idle /\ cx = Idle

PipelineFrame == UNCHANGED <<rs, mg, repo, db, sq, g, pt, fc, cx>>

\* An order in which the resolution pass is called before lineage extraction.
steps_resolution_early ==
  <<"scan_repository", "compute_counts", "parse_oozie", "scan_repo_patterns",
    "resolve_repository", "extract_sql_lineage_repo", "extract_variables_repo",
    "extract_databases_from_repository", "build_dependency_graph",
    "score_repository", "repo_summary", "render_html_report">>

\* The calls of analyze_repository in the order of its body.
analyze_repository_steps ==
  <<"scan_repository", "compute_counts", "parse_oozie", "scan_repo_patterns",
    "extract_sql_lineage_repo", "extract_variables_repo",
    "extract_databases_from_repository", "build_dependency_graph",
    "score_repository", "repo_summary", "resolve_repository",
    "render_html_report">>

\* The call the run is at, None when it has returned.
next_step(done) ==
  IF Len(done) < Len(analyze_repository_steps)
    THEN analyze_repository_steps[Len(done) + 1]
  ELSE None

ScanRepository ==
  /\ next_step(pl.stages) = "scan_repository"
  /\ pl' = [pl EXCEPT !.stages = Append(@, "scan_repository"),
              !.pc = "scanned",
              !.files_index = scan_repository(pl.disk, pl.max_file_mb)]
  /\ PipelineFrame

ComputeCounts ==
  /\ next_step(pl.stages) = "compute_counts"
  /\ pl' = [pl EXCEPT !.stages = Append(@, "compute_counts"),
              !.pc = "counted",
              !.files_index = compute_counts(pl.disk, pl.files_index),
              !.reads = @ \cup
                 ReadsOf("compute_counts",
                   SelectSeq(pl.files_index,
                     LAMBDA f : /\ ~too_big(f.size_bytes)
                                /\ read_text(pl.disk, f.path)))]
  /\ PipelineFrame

DocumentTypes ==
  {"oozie_workflow_xml", "oozie_coordinator_xml", "oozie_bundle_xml"}

ParseOozie ==
  /\ next_step(pl.stages) = "parse_oozie"
  /\ pl' = [pl EXCEPT !.stages = Append(@, "parse_oozie"),
              !.pc = "parsed",
              !.workflows = parse_documents(pl.disk, pl.files_index).workflows,
              !.coordinators = parse_documents(pl.disk, pl.files_index).coordinators,
              !.bundles = parse_documents(pl.disk, pl.files_index).bundles,
              !.reads = @ \cup
                 ReadsOf("parse_oozie",
                         texts_of(pl.disk, pl.files_index, DocumentTypes)),
              !.written = @ \cup {"workflows.json"}]
  /\ PipelineFrame

ScanRepoPatterns ==
  /\ next_step(pl.stages) = "scan_repo_patterns"
  /\ pl' = [pl EXCEPT !.stages = Append(@, "scan_repo_patterns"),
              !.pc = "scanned_patterns",
              !.findings = scan_repo_patterns(pl.disk, pl.files_index),
              !.reads = @ \cup
                 ReadsOf("scan_repo_patterns",
                         texts_of(pl.disk, pl.files_index, AllTypes)),
              !.written = @ \cup {"findings.json"}]
  /\ PipelineFrame

ExtractSqlLineageRepo ==
  /\ next_step(pl.stages) = "extract_sql_lineage_repo"
  /\ pl' = [pl EXCEPT !.stages = Append(@, "extract_sql_lineage_repo"),
              !.pc = "lineage",
              !.lineage = extract_sql_lineage_repo(pl.disk, pl.files_index),
              !.reads = @ \cup
                 ReadsOf("extract_sql_lineage_repo",
                         texts_of(pl.disk, pl.files_index, LineageTypes)),
              !.written = @ \cup {"lineage.json"}]
  /\ PipelineFrame

ExtractVariablesRepo ==
  /\ next_step(pl.stages) = "extract_variables_repo"
  /\ pl' = [pl EXCEPT !.stages = Append(@, "extract_variables_repo"),
              !.pc = "variables",
              !.variables = extract_variables_repo(pl.disk, pl.files_index),
              !.reads = @ \cup
                 ReadsOf("extract_variables_repo",
                         texts_of(pl.disk, pl.files_index, AllTypes)),
              !.written = @ \cup {"variables.json"}]
  /\ PipelineFrame

ExtractDatabasesFromRepository ==
  /\ next_step(pl.stages) = "extract_databases_from_repository"
  /\ pl' = [pl EXCEPT !.stages = Append(@, "extract_databases_from_repository"),
              !.pc = "databases",
              !.database_context =
                 extract_databases_from_repository(pl.disk, pl.files_index),
              !.reads = @ \cup
                 ReadsOf("extract_databases_from_repository",
                         texts_of(pl.disk, pl.files_index, DatabaseTypes)),
              !.written = @ \cup {"database_context.json"}]
  /\ PipelineFrame

\* workflows_blob of the run.
workflows_blob_of(run) ==
  [workflows |-> run.workflows, coordinators |-> run.coordinators,
   bundles |-> run.bundles]

\* The summary and files_by_database of the database context: a.sql, the
\* one modelled file with table references, names the database db in two
\* source and three target references.
database_summary(tags) ==
  IF "a.sql" \in Range(tags)
    THEN [summary |-> [total_databases |-> 1, total_source_table_refs |-> 2,
                       total_target_table_refs |-> 3],
          files_by_database |-> [d \in {"db"} |-> <<"a.sql">>]]
  ELSE [summary |-> [total_databases |-> 0, total_source_table_refs |-> 0,
                     total_target_table_refs |-> 0],
        files_by_database |-> NoKeys]

\* Step 5: the graph is built from the index and the parsed documents and
\* reads no file.
DependencyGraphStage ==
  /\ next_step(pl.stages) = "build_dependency_graph"
  /\ pl' = [pl EXCEPT !.stages = Append(@, "build_dependency_graph"),
              !.pc = "graph",
              !.written = @ \cup {"dependency_graph.json"}]
  /\ PipelineFrame

\* The rubric given to the run: the empty one, with which every point and
\* threshold is the default written in the scorer.
PipelineRubrics == {NoKeys}

\* Step 6: the scorer gets the index, the parsed documents, the findings,
\* the lineage and the database context as they are at this point.
ComplexityStage ==
  /\ next_step(pl.stages) = "score_repository"
  /\ \E rubric \in PipelineRubrics :
       pl' = [pl EXCEPT !.stages = Append(@, "score_repository"),
                !.pc = "scored",
                !.rubric = rubric,
                !.complexity =
                   score_repository(pl.files_index, workflows_blob_of(pl),
                                    pl.findings, pl.lineage, rubric,
                                    database_summary(pl.database_context)),
                !.written = @ \cup {"complexity.json"}]
  /\ PipelineFrame

\* Step 7: the repository summary, with the two repository-level detections.
RepoSummaryStage ==
  /\ next_step(pl.stages) = "repo_summary"
  /\ pl' = [pl EXCEPT !.stages = Append(@, "repo_summary"),
              !.pc = "summarised",
              !.repo_summary =
                 [file_count |-> Len(pl.files_index),
                  workflow_count |-> Len(pl.workflows),
                  coordinator_count |-> Len(pl.coordinators),
                  bundle_count |-> Len(pl.bundles),
                  has_streaming |->
                    has_streaming_repo(pl.files_index, workflows_blob_of(pl)),
                  has_dynamic_sql |->
                    has_dynamic_sql_repo(pl.disk, pl.files_index)],
              !.reads = @ \cup
                 ReadsOf("has_dynamic_sql_repo",
                         dynamic_sql_reads(
                           texts_of(pl.disk, pl.files_index, DynamicSqlTypes), 1)),
              !.written = @ \cup {"repo_summary.json", "files_index.json"}]
  /\ PipelineFrame

\* Step 8: resolve_repository starts with build_definitions_from_repo.
ResolutionPass ==
  /\ next_step(pl.stages) = "resolve_repository"
  /\ pl' = [pl EXCEPT !.stages = Append(@, "resolve_repository"),
              !.pc = "resolved",
              !.definitions = definition_files(pl.disk, pl.files_index),
              !.reads = @ \cup
                 ReadsOf("build_definitions_from_repo",
                         texts_of(pl.disk, pl.files_index, AllTypes)),
              !.written = @ \cup {"resolved.json", "partially_resolved.json",
                                  "unresolved.json", "findings_resolved.json",
                                  "workflows_resolved.json",
                                  "lineage_resolved.json"}]
  /\ PipelineFrame

RenderHtmlReport ==
  /\ next_step(pl.stages) = "render_html_report"
  /\ pl' = [pl EXCEPT !.stages = Append(@, "render_html_report"),
              !.pc = "done", !.written = @ \cup {"report.html"}]
  /\ PipelineFrame

NextPipeline ==
  \/ ScanRepository \/ ComputeCounts \/ ParseOozie \/ ScanRepoPatterns
  \/ ExtractSqlLineageRepo \/ ExtractVariablesRepo
  \/ ExtractDatabasesFromRepository \/ DependencyGraphStage
  \/ ComplexityStage \/ RepoSummaryStage \/ ResolutionPass
  \/ RenderHtmlReport

SpecPipeline == InitPipeline /\ [][NextPipeline]_vars

(***************************************************************************)
(* Properties of the pipeline run                                          *)
(***************************************************************************)

Counted == pl.pc \notin {"idle", "start", "scanned"}

\* C11: once the counts are computed, a file has parse status skipped_large
\* exactly when its size exceeds the cap max_file_mb given to the run,
\* whatever that cap is.
C11_ConfiguredCap ==
  Counted =>
    \A i \in 1..Len(pl.files_index) :
      (pl.files_index[i].parse_status = "skipped_large")
        <=> (pl.files_index[i].size_bytes > pl.max_file_mb * MB)

LeftOut(status) == status \in {"skipped_large", "read_error"}

StagesAfterCounts ==
  {"parse_oozie", "scan_repo_patterns", "extract_sql_lineage_repo",
   "extract_variables_repo", "extract_databases_from_repository",
   "has_dynamic_sql_repo", "build_definitions_from_repo"}

FindingFiles(findings) ==
  IF DOMAIN findings = {} THEN {}
  ELSE { h.file : h \in Range(findings.jdbc_strings) \cup Range(findings.urls)
                        \cup Range(findings.kafka_bootstrap_hints)
                        \cup Range(findings.storage_paths) }

ExtractionResults ==
  FindingFiles(pl.findings) \cup Range(pl.lineage) \cup Range(pl.variables)
  \cup Range(pl.database_context) \cup Range(pl.definitions)

\* C12: no stage after the counts obtains the text of a file whose parse
\* status is skipped_large or read_error, and no result of pattern scanning,
\* lineage, variable or database extraction or definition collection comes
\* from such a file.
C12_LeftOutNeverRead ==
  Counted =>
    \A i \in 1..Len(pl.files_index) :
      LeftOut(pl.files_index[i].parse_status) =>
        /\ \A stage \in StagesAfterCounts :
             <<stage, pl.files_index[i].path>> \notin pl.reads
        /\ pl.files_index[i].path \notin ExtractionResults

Without(disk, path) == SelectSeq(disk, LAMBDA f : f.path # path)

DocumentRecords == pl.workflows \o pl.coordinators \o pl.bundles

\* C13: a run ends with every output written, and a file that is
\* unreadable, oversized or malformed shows only in its own record: the
\* records of the other files are those of the run without it, an
\* unreadable or oversized file has no extraction result, and a malformed
\* document has a failed record.
C13_OnlyOwnRecord ==
  pl.pc = "done" =>
    /\ pl.written = Artifacts
    /\ \A i \in 1..Len(pl.files_index) :
         LET f == pl.files_index[i]
             rest == Without(pl.disk, f.path)
         IN  /\ LeftOut(f.parse_status) =>
                  /\ f.lines_count = 0
                  /\ f.path \notin ExtractionResults
                  /\ SelectSeq(pl.files_index, LAMBDA x : x.path # f.path)
                       = compute_counts(rest, scan_repository(rest, pl.max_file_mb))
             /\ ~FileAt(pl.disk, f.path).wellformed =>
                  /\ f.detected_type \in {"oozie_workflow_xml", "oozie_coordinator_xml",
                                          "oozie_bundle_xml"}
                  /\ \A k \in 1..Len(DocumentRecords) :
                       DocumentRecords[k].source_file = f.path =>
                         /\ DocumentRecords[k].parse_status # "ok"
                         /\ DocumentRecords[k].name = None

Parsed == pl.pc \notin {"idle", "start", "scanned", "counted"}

ExpectedStatus(f) ==
  IF ~f.readable THEN "read_error:" \o ReadErrorMessage
  ELSE IF ~f.wellformed THEN "xml_parse_error:" \o XmlErrorMessage
  ELSE "ok"

RecordsMatch(records, ftype) ==
  /\ [k \in 1..Len(records) |-> records[k].source_file]
       = PathsOf(OfType(pl.files_index, ftype))
  /\ \A k \in 1..Len(records) :
       records[k].parse_status
         = ExpectedStatus(FileAt(pl.disk, records[k].source_file))

\* C15: once the documents are parsed, each of the three document lists
\* holds exactly one record per file detected as that kind of document, in
\* index order; the record of an unreadable document carries read_error and
\* the message, that of a malformed one xml_parse_error and the message, and
\* that of a well-formed one ok.
C15_OneRecordPerDocument ==
  Parsed =>
    /\ RecordsMatch(pl.workflows, "oozie_workflow_xml")
    /\ RecordsMatch(pl.coordinators, "oozie_coordinator_xml")
    /\ RecordsMatch(pl.bundles, "oozie_bundle_xml")

C15_Witness ==
  /\ pl.pc = "parsed"
  /\ \E k \in 1..Len(pl.workflows) :
       pl.workflows[k].parse_status = "xml_parse_error:" \o XmlErrorMessage
  /\ \E k \in 1..Len(pl.coordinators) :
       pl.coordinators[k].parse_status = "read_error:" \o ReadErrorMessage

LineageExtracted ==
  pl.pc \notin {"idle", "start", "scanned", "counted", "parsed",
                "scanned_patterns"}

HasLineageMatch(path) ==
  \/ extract_sql_lineage(FileWords(path)).sources # <<>>
  \/ extract_sql_lineage(FileWords(path)).targets # <<>>

\* C21: once lineage is extracted, every readable file of a query or code
\* kind whose text has a read-context or write-context match has a lineage
\* record with its sorted, de-duplicated sources and targets and the file as
\* evidence_file.
C21_LineagePerFile ==
  LineageExtracted =>
    \A i \in 1..Len(pl.files_index) :
      ( /\ pl.files_index[i].detected_type \in LineageTypes
        /\ read_text(pl.disk, pl.files_index[i].path)
        /\ HasLineageMatch(pl.files_index[i].path) )
      => \E k \in 1..Len(pl.lineage) :
           pl.lineage[k] =
             [sources |-> extract_sql_lineage(FileWords(pl.files_index[i].path)).sources,
              targets |-> extract_sql_lineage(FileWords(pl.files_index[i].path)).targets,
              evidence_file |-> pl.files_index[i].path]

Summarised ==
  pl.pc \notin {"idle"} /\ "repo_summary" \in Range(pl.stages)

RepoItem == pl.complexity.items[1]

RubricPoints ==
  IF "points" \in DOMAIN pl.rubric THEN pl.rubric.points ELSE NoKeys

\* C27: in a run, a JDBC or connection hit of the pattern scan puts the
\* external-system points into the technology dimension of the
\* repository-level item, a positive streaming detection gives the item the
\* streaming flag and its operational points, and a positive dynamic-SQL
\* detection gives it the dynamic_sql flag and its data points.
C27_DetectionsReachScore ==
  Summarised =>
    /\ pl.findings.jdbc_count > 0 =>
         RepoItem.dimension_scores.technology
           >= points(RubricPoints, "external_system_bonus", 5)
    /\ pl.repo_summary.has_streaming =>
         /\ "streaming" \in Range(RepoItem.risk_flags)
         /\ RepoItem.dimension_scores.operational
              >= points(RubricPoints, "streaming_bonus", 15)
    /\ pl.repo_summary.has_dynamic_sql =>
         /\ "dynamic_sql" \in Range(RepoItem.risk_flags)
         /\ RepoItem.dimension_scores.data
              >= points(RubricPoints, "dynamic_sql_bonus", 10)

\* The first position of a call in the history of the run, 0 when absent.
StepIndex(done, step) ==
  IF step \in Range(done)
    THEN CHOOSE k \in 1..Len(done) :
           done[k] = step /\ \A j \in 1..(k - 1) : done[j] # step
  ELSE 0

Before(done, first, second) ==
  StepIndex(done, first) # 0 /\ StepIndex(done, first) < StepIndex(done, second)

ExtractionSteps ==
  {"scan_repository", "compute_counts", "parse_oozie", "scan_repo_patterns",
   "extract_sql_lineage_repo", "extract_variables_repo",
   "extract_databases_from_repository"}

StepsResolutionNeeds ==
  {"scan_repository", "parse_oozie", "scan_repo_patterns",
   "extract_sql_lineage_repo"}

\* C28: the resolution pass is called only after scanning, document
\* parsing, pattern finding and lineage extraction have returned, the
\* workflows, findings and lineage it rewrites being written by then, and no
\* extraction stage is called after it.
C28_ResolutionAfterExtraction ==
  "resolve_repository" \in Range(pl.stages) =>
    /\ \A step \in StepsResolutionNeeds :
         Before(pl.stages, step, "resolve_repository")
    /\ {"workflows.json", "findings.json", "lineage.json"} \subseteq pl.written
    /\ DOMAIN pl.findings # {}
    /\ \A k \in 1..Len(pl.stages) :
         k > StepIndex(pl.stages, "resolve_repository")
           => pl.stages[k] \notin ExtractionSteps

C28_Witness ==
  /\ pl.pc = "resolved"
  /\ pl.stages[Len(pl.stages)] = "resolve_repository"
  /\ pl.findings.jdbc_count > 0
  /\ \E k \in 1..Len(pl.workflows) : pl.workflows[k].parse_status = "ok"

UpstreamOfScoring ==
  ExtractionSteps \cup {"build_dependency_graph", "resolve_repository"}

\* C29: the complexity scorer is called only after every upstream stage has
\* returned, the resolution pass among them.
C29_ScoreAfterResolution ==
  "score_repository" \in Range(pl.stages) =>
    \A step \in UpstreamOfScoring :
      Before(pl.stages, step, "score_repository")

(***************************************************************************)
(* scan_repo_patterns and find_patterns                                    *)
(*                                                                         *)
(* A line is a sequence of characters.  A pattern string is one of         *)
(*   a      the literal a                                                  *)
(*   .      any character but the line break                               *)
(*   a(b)   the literal ab, with b as group 1                              *)
(*   (  [   strings on which re.compile raises re.error                    *)
(***************************************************************************)

LineBreak == "nl"

PatternStrings == {"a", ".", "a(b)", "(", "["}

\* re.compile(p) returns.
compiles(p) == p \notin {"(", "["}

\* Length of the match of p at position i of s, 0 when there is none.
match_length(p, s, i) ==
  CASE p = "a" -> IF s[i] = "a" THEN 1 ELSE 0
    [] p = "." -> IF s[i] # LineBreak THEN 1 ELSE 0
    [] p = "a(b)" ->
         IF i < Len(s) /\ s[i] = "a" /\ s[i + 1] = "b" THEN 2 ELSE 0
    [] OTHER -> 0

\* The match object: group 0, and group 1 when the pattern has a group.
match_at(p, s, i) ==
  CASE p = "a(b)" -> [group0 |-> "ab", group1 |-> "b", lastindex |-> 1]
    [] OTHER -> [group0 |-> s[i], group1 |-> None, lastindex |-> 0]

RECURSIVE finditer(_, _, _)
finditer(p, s, i) ==
  IF i > Len(s) THEN <<>>
  ELSE IF match_length(p, s, i) > 0
    THEN <<match_at(p, s, i)>> \o finditer(p, s, i + match_length(p, s, i))
  ELSE finditer(p, s, i + 1)

compile_until_invalid(rx_list) ==
  SubSeq(rx_list, 1,
         Cardinality({ i \in 1..Len(rx_list) :
                         \A j \in 1..i : compiles(rx_list[j]) }))

\* _compile_many: try re.compile, except re.error: continue.
compile_many(rx_list) == SelectSeq(rx_list, compiles)

RECURSIVE matches_of(_, _, _)
\* for _, rx in rxs: for m in rx.finditer(line)
matches_of(rxs, line, k) ==
  IF k > Len(rxs) THEN <<>>
  ELSE finditer(rxs[k], line, 1) \o matches_of(rxs, line, k + 1)

group0_of(m) == m.group0

\* m.group(1) if m.lastindex and m.lastindex >= 1 else m.group(0)
group1_or_group0(m) == IF m.lastindex >= 1 THEN m.group1 ELSE m.group0

hit(v, rel_path, i) ==
  [value |-> v, file |-> rel_path, line |-> i, confidence |-> "high"]

line_hits(rxs, rel_path, line, i, kafka) ==
  [k \in 1..Len(matches_of(rxs, line, 1)) |->
     hit(IF kafka THEN group1_or_group0(matches_of(rxs, line, 1)[k])
         ELSE group0_of(matches_of(rxs, line, 1)[k]),
         rel_path, i)]

RECURSIVE scan_lines(_, _, _, _, _)
\* _scan_lines, for the list of one finding key.
scan_lines(rxs, rel_path, lines, i, kafka) ==
  IF i > Len(lines) THEN <<>>
  ELSE line_hits(rxs, rel_path, lines[i], i, kafka)
       \o scan_lines(rxs, rel_path, lines, i + 1, kafka)

\* scan_repo_patterns on a repository of one readable file.
scan_patterns(rel_path, lines, patterns) ==
  [jdbc_strings |->
     scan_lines(compile_many(patterns.jdbc_patterns), rel_path, lines, 1, FALSE),
   urls |->
     scan_lines(compile_many(patterns.url_patterns), rel_path, lines, 1, FALSE),
   kafka_bootstrap_hints |->
     scan_lines(compile_many(patterns.kafka_bootstrap_patterns), rel_path,
                lines, 1, TRUE),
   storage_paths |->
     scan_lines(compile_many(patterns.storage_path_patterns), rel_path,
                lines, 1, FALSE)]

RECURSIVE join_lines(_, _)
\* The text of the file: its lines, each ended by a line break.
join_lines(lines, i) ==
  IF i > Len(lines) THEN <<>>
  ELSE lines[i] \o <<LineBreak>> \o join_lines(lines, i + 1)

RECURSIVE find_patterns_from(_, _, _)
find_patterns_from(text, patterns, k) ==
  IF k > Len(patterns) THEN <<>>
  ELSE (IF compiles(patterns[k])
          THEN [j \in 1..Len(finditer(patterns[k], text, 1)) |->
                  group0_of(finditer(patterns[k], text, 1)[j])]
        ELSE <<>>)
       \o find_patterns_from(text, patterns, k + 1)

find_patterns(text, patterns) == find_patterns_from(text, patterns, 1)

MaxPatterns == 3

PatternTables ==
  UNION { [1..n -> PatternStrings] : n \in 0..MaxPatterns }

TableKeys ==
  {"jdbc_patterns", "url_patterns", "kafka_bootstrap_patterns",
   "storage_path_patterns"}

\* load_patterns output with one table filled.
patterns_with(key, table) ==
  [k \in TableKeys |-> IF k = key THEN table ELSE <<>>]

PatternTexts ==
  { << <<"a", "b">> >>,
    << <<"b", "a">>, <<"a", "b", "a">> >>,
    << <<"a", "a", "b">>, <<>>, <<"b">> >> }

NoFindings ==
  [jdbc_strings |-> <<>>, urls |-> <<>>, kafka_bootstrap_hints |-> <<>>,
   storage_paths |-> <<>>]

InitPatterns ==
  /\ pt \in { [pc |-> "loaded", key |-> key, table |-> t, lines |-> x,
               findings |-> NoFindings, found |-> <<>>] :
              key \in TableKeys, t \in PatternTables, x \in PatternTexts }
  /\ rs = Idle /\ mg = Idle /\ repo = Idle /\ db = Idle /\ sq = Idle
  /\ g = Idle /\ pl = Idle /\ fc = Idle /\ cx = Idle

ScanPatterns ==
  /\ pt.pc = "loaded"
  /\ pt' = [pt EXCEPT !.pc = "scanned",
              !.findings = scan_patterns("a.sql", pt.lines,
                                         patterns_with(pt.key, pt.table))]
  /\ UNCHANGED <<rs, mg, repo, db, sq, g, pl, fc, cx>>

FindPatterns ==
  /\ pt.pc = "loaded"
  /\ pt' = [pt EXCEPT !.pc = "found",
              !.found = find_patterns(join_lines(pt.lines, 1), pt.table)]
  /\ UNCHANGED <<rs, mg, repo, db, sq, g, pl, fc, cx>>

NextPatterns == ScanPatterns \/ FindPatterns

SpecPatterns == InitPatterns /\ [][NextPatterns]_vars

(***************************************************************************)
(* Properties of the pattern scan                                          *)
(***************************************************************************)

ValidOnly(table) == SelectSeq(table, LAMBDA p : p \notin {"(", "["})

\* C14: the findings of a table that holds invalid pattern strings are the
\* findings of the table with those strings removed: every valid pattern is
\* applied, in table order, and the scan returns.
C14_InvalidDropped ==
  /\ pt.pc = "scanned" =>
       pt.findings = scan_patterns("a.sql", pt.lines,
                                   patterns_with(pt.key, ValidOnly(pt.table)))
  /\ pt.pc = "found" =>
       pt.found = find_patterns(join_lines(pt.lines, 1), ValidOnly(pt.table))

C14_Witness ==
  /\ pt.pc = "scanned"
  /\ pt.key = "kafka_bootstrap_patterns"
  /\ pt.table = <<"a(b)", "(", ".">>
  /\ Len(pt.findings.kafka_bootstrap_hints) > Len(pt.lines)

(***************************************************************************)
(* discovery/file_classifier.py: classify, and _detect_type_simple of      *)
(* repo_scanner.py, on file names                                          *)
(*                                                                         *)
(* The head of a file is the list of its first words: the XML declaration, *)
(* the root tags of the three orchestration documents, an Impala and a     *)
(* Hive statement, and a word of no meaning.                               *)
(***************************************************************************)

mapping(ext) ==
  CASE ext \in {".properties", ".props"} -> "properties"
    [] ext = ".json" -> "json"
    [] ext \in {".yml", ".yaml"} -> "yaml"
    [] ext \in {".ini", ".cfg", ".conf"} -> "ini_conf"
    [] ext = ".sql" -> "sql"
    [] ext \in {".hql", ".q"} -> "hql"
    [] ext \in {".ddl", ".dml"} -> "sql_ddl_dml"
    [] ext = ".pig" -> "pig"
    [] ext \in {".sh", ".bash", ".ksh"} -> "shell"
    [] ext = ".py" -> "python"
    [] ext = ".scala" -> "scala"
    [] ext = ".java" -> "java"
    [] ext = ".ipynb" -> "notebook_jupyter"
    [] ext = ".zpln" -> "notebook_zeppelin"
    [] ext \in {".md", ".txt"} -> "text_doc"
    [] ext = ".xml" -> "xml"
    [] OTHER -> "unknown"

\* The signature refinement of classify for a kind t: the kind it returns,
\* None when it returns nothing.
signature_refinement(t, ht) ==
  IF t \notin {"xml", "unknown"} THEN None
  ELSE IF "<workflow-app" \in Range(ht) THEN "oozie_workflow_xml"
  ELSE IF "<coordinator-app" \in Range(ht) THEN "oozie_coordinator_xml"
  ELSE IF "<bundle-app" \in Range(ht) THEN "oozie_bundle_xml"
  ELSE IF ht # <<>> /\ ht[1] = "<?xml" THEN "xml_generic"
  ELSE None

\* The SQL refinement of classify.
sql_refinement(t, ht) ==
  IF t \notin {"sql", "hql", "sql_ddl_dml"} THEN None
  ELSE IF "refresh" \in Range(ht) THEN "impala_sql"
  ELSE IF "set hive.x" \in Range(ht) THEN "hql"
  ELSE None

\* The build-file names of classify.
build_files(name, t) ==
  IF name = "pom.xml" THEN "build_maven"
  ELSE IF name \in {"build.gradle", "settings.gradle"} THEN "build_gradle"
  ELSE IF name = "build.sbt" THEN "build_sbt"
  ELSE IF name \in {"requirements.txt", "pipfile", "poetry.lock"}
    THEN "build_python_deps"
  ELSE t

\* classify(path, head_text)[0]
classify(path, head_text) ==
  IF LowerName(path) = "workflow.xml" THEN "oozie_workflow_xml"
  ELSE IF LowerName(path) = "coordinator.xml" THEN "oozie_coordinator_xml"
  ELSE IF LowerName(path) = "bundle.xml" THEN "oozie_bundle_xml"
  ELSE IF signature_refinement(mapping(PathSuffix[path]), head_text) # None
    THEN signature_refinement(mapping(PathSuffix[path]), head_text)
  ELSE IF sql_refinement(mapping(PathSuffix[path]), head_text) # None
    THEN sql_refinement(mapping(PathSuffix[path]), head_text)
  ELSE build_files(LowerName(path), mapping(PathSuffix[path]))

\* The most words in the head of a file.
MaxHeadWords == 2

HeadWords ==
  {"<?xml", "<workflow-app", "<coordinator-app", "<bundle-app", "refresh",
   "set hive.x", "x"}

HeadTexts == UNION { [1..n -> HeadWords] : n \in 0..MaxHeadWords }

InitClassify ==
  /\ fc \in { [pc |-> "named", path |-> p, head_text |-> ht,
               detected_type |-> None] : p \in FileNames, ht \in HeadTexts }
  /\ rs = Idle /\ mg = Idle /\ repo = Idle /\ db = Idle /\ sq = Idle
  /\ g = Idle /\ pl = Idle /\ pt = Idle /\ cx = Idle

Classify ==
  /\ fc.pc = "named"
  /\ fc' = [fc EXCEPT !.pc = "classified",
              !.detected_type = classify(fc.path, fc.head_text)]
  /\ UNCHANGED <<rs, mg, repo, db, sq, g, pl, pt, cx>>

DetectTypeSimple ==
  /\ fc.pc = "named"
  /\ fc' = [fc EXCEPT !.pc = "detected",
              !.detected_type = detect_type_simple(fc.path)]
  /\ UNCHANGED <<rs, mg, repo, db, sq, g, pl, pt, cx>>

NextClassify == Classify \/ DetectTypeSimple

SpecClassify == InitClassify /\ [][NextClassify]_vars

(***************************************************************************)
(* Properties of the classification                                        *)
(***************************************************************************)

\* The kind of the filename rule that a name matches, None when it matches
\* none.
FilenameRule(name) ==
  CASE name = "workflow.xml" -> "oozie_workflow_xml"
    [] name = "coordinator.xml" -> "oozie_coordinator_xml"
    [] name = "bundle.xml" -> "oozie_bundle_xml"
    [] name = "pom.xml" -> "build_maven"
    [] name = "build.gradle" -> "build_gradle"
    [] name = "build.sbt" -> "build_sbt"
    [] name = "requirements.txt" -> "build_python_deps"
    [] OTHER -> None

\* The kinds that derive from a mapped extension: the kind of the mapping
\* (in either spelling of the two functions) and its refinements by content
\* or by name.
DerivedKinds(ext) ==
  {mapping(ext)}
  \cup (IF mapping(ext) = "xml"
        THEN {"xml_generic", "oozie_workflow_xml", "oozie_coordinator_xml",
              "oozie_bundle_xml"}
        ELSE {})
  \cup (IF mapping(ext) \in {"sql", "hql", "sql_ddl_dml"}
        THEN {"sql", "hql", "impala_sql"} ELSE {})
  \cup (IF mapping(ext) = "text_doc" THEN {"other"} ELSE {})

\* C26: a file whose name matches a filename rule has the kind of that rule
\* whatever its extension and content, and a file that matches none and has
\* a mapped extension has a kind derived from the extension.
C26_FilenameFirst ==
  fc.pc \in {"classified", "detected"} =>
    /\ FilenameRule(LowerName(fc.path)) # None
         => fc.detected_type = FilenameRule(LowerName(fc.path))
    /\ ( /\ FilenameRule(LowerName(fc.path)) = None
         /\ mapping(PathSuffix[fc.path]) # "unknown" )
         => fc.detected_type \in DerivedKinds(PathSuffix[fc.path])

====
